---- MODULE Spec2Model ----
(***************************************************************************)
(* Model of the structured-grid classifier (src/src/pde/grid.c), the CSR   *)
(* kernels and solvers (src/src/sparse/csr.c) and the stencil assemblers   *)
(* (src/src/pde/poisson2d.c, src/src/pde/parabolic.c).                     *)
(*                                                                         *)
(* C arrays are 0-based; they are modelled as TLA+ sequences read through  *)
(* At(s, k) == s[k + 1].  Two-dimensional arrays are functions over the    *)
(* pairs <<i, j>>.                                                         *)
(***************************************************************************)
EXTENDS Integers, Sequences, FiniteSets, TLC

VARIABLES pc,       \* which call has returned: "start", "grid", ...
          divider,  \* the arguments of initialize_Grid: [nx, ny, code]
          grid,     \* the Grid2D built by initialize_Grid, or NoGrid
          mat,      \* the SparseCSR handed to the CSR kernels and solvers
          call      \* the last CSR call: its arguments and what it wrote

vars == <<pc, divider, grid, mat, call>>

(***************************************************************************)
(* Bounds of the model.                                                    *)
(***************************************************************************)
MaxCells == 6   \* SpecGrid: largest nx * ny
MaxCode == 2    \* SpecGrid: largest code a region_divider returns
MaxRows == 2    \* SpecCsr: largest number of rows of an arbitrary matrix
MaxNnz == 4     \* SpecCsr: largest number of stored entries
MaxIdentityRows == 4  \* SpecCsr: largest identity matrix
MaxIter == 2    \* SpecCsr: largest max_iter handed to a solver
MaxSide == 3    \* SpecAsm: largest nx and largest ny
MaxAsmCells == 9  \* SpecAsm: largest nx * ny
MaxMixedCells == 6  \* SpecAsm: largest nx * ny of a grid with inactive points
MaxRowCells == 3  \* SpecRows: largest nx * ny

At(s, k) == s[k + 1]

NoGrid == [nx |-> -1]
NoMatrix == [rows |-> -1]
NoCall == [op |-> "none"]

(***************************************************************************)
(* double arithmetic, modelled exactly: a value is <<n, d>> in lowest      *)
(* terms with d > 0; a division by zero gives <<1, 0>> (+Inf), <<-1, 0>>   *)
(* (-Inf) or <<0, 0>> (NaN), and these propagate as IEEE 754 has them.     *)
(* Rounding and signed zeros are not modelled.                             *)
(***************************************************************************)
Abs(n) == IF n < 0 THEN -n ELSE n
Sign(n) == IF n < 0 THEN -1 ELSE IF n > 0 THEN 1 ELSE 0

RECURSIVE Gcd(_, _)
Gcd(a, b) == IF b = 0 THEN a ELSE Gcd(b, a % b)

Normalise(n, d) ==
    IF d = 0 THEN <<Sign(n), 0>>
    ELSE LET g == Gcd(Abs(n), Abs(d))
         IN  <<(Sign(d) * n) \div g, Abs(d) \div g>>

R(n) == <<n, 1>>
NaN == <<0, 0>>

(***************************************************************************)
(* Values whose numerator or denominator does not fit the integers of the  *)
(* model checker are held as <<s, N, D>>: the sign s (-1 or 1) and the     *)
(* numerator and denominator as sequences of digits in base LimbBase, the  *)
(* least significant first and the most significant not 0, N and D without *)
(* a common factor.  A value that fits is always held as <<n, d>>.         *)
(***************************************************************************)
LimbBase == 1000
MaxInt == 2147483647

RECURSIVE Limbs(_)
Limbs(n) == IF n = 0 THEN << >> ELSE <<n % LimbBase>> \o Limbs(n \div LimbBase)

Digit(L, i) == IF i <= Len(L) THEN L[i] ELSE 0

Highest(S) == CHOOSE m \in S : \A k \in S : k <= m

\* The function f on 1 .. n as the sequence of its values, each worked out
\* once.
AsSequence(f) == SubSeq(f, 1, Len(f))

\* The digit sequence without its most significant zeros.
Trim(L) ==
    IF L = << >> THEN L
    ELSE IF L[Len(L)] # 0 THEN L
    ELSE LET nz == {i \in 1 .. Len(L) : L[i] # 0}
         IN  IF nz = {} THEN << >> ELSE SubSeq(L, 1, Highest(nz))

\* -1, 0 or 1 as a < b, a = b or a > b: the most significant digit in which
\* they differ decides.
BCmp(a, b) ==
    IF Len(a) # Len(b) THEN (IF Len(a) < Len(b) THEN -1 ELSE 1)
    ELSE IF a = b THEN 0
    ELSE IF a[Len(a)] # b[Len(a)]
    THEN (IF a[Len(a)] < b[Len(a)] THEN -1 ELSE 1)
    ELSE LET i == Highest({k \in 1 .. Len(a) : a[k] # b[k]})
         IN  IF a[i] < b[i] THEN -1 ELSE 1

\* The carry into digit i of a sequence s of digit sums, each from 0 to
\* 2 * LimbBase - 2: the nearest digit below i that is not LimbBase - 1
\* decides.
Carry(s, i) ==
    IF i = 1 THEN 0
    ELSE IF s[i - 1] # LimbBase - 1
    THEN (IF s[i - 1] >= LimbBase THEN 1 ELSE 0)
    ELSE LET low == {j \in 1 .. i - 1 : s[j] # LimbBase - 1}
         IN  IF low = {} THEN 0
             ELSE IF s[Highest(low)] >= LimbBase THEN 1 ELSE 0

\* The digits of the number whose digit sums are s.
Propagate(s) ==
    Trim(AsSequence([i \in 1 .. Len(s) + 1 |->
                        (Digit(s, i) + Carry(s, i)) % LimbBase]))

\* One round of carrying for a sequence c of digit sums of any size: every
\* sum keeps what is below LimbBase and hands the rest to the next digit.
Carries(c) ==
    AsSequence([j \in 1 .. Len(c) + 1 |->
                  (Digit(c, j) % LimbBase)
                      + (IF j = 1 THEN 0 ELSE c[j - 1] \div LimbBase)])

BAdd(a, b) ==
    Propagate(AsSequence(
        [i \in 1 .. (IF Len(a) > Len(b) THEN Len(a) ELSE Len(b)) |->
            Digit(a, i) + Digit(b, i)]))

\* The borrow from digit i of a sequence t of digit differences: the nearest
\* digit below i that is not 0 decides.
Borrow(t, i) ==
    IF i = 1 THEN 0
    ELSE IF t[i - 1] # 0 THEN (IF t[i - 1] < 0 THEN 1 ELSE 0)
    ELSE LET low == {j \in 1 .. i - 1 : t[j] # 0}
         IN  IF low = {} THEN 0
             ELSE IF t[Highest(low)] < 0 THEN 1 ELSE 0

\* The digits of the number whose digit differences are t.
Settle(t) ==
    Trim(AsSequence([i \in 1 .. Len(t) |->
                        (t[i] - Borrow(t, i)) % LimbBase]))

\* a - b for a >= b.
BSub(a, b) == Settle(AsSequence([i \in 1 .. Len(a) |-> a[i] - Digit(b, i)]))

\* a * k for 0 <= k <= LimbBase.
BMulSmall(a, k) ==
    IF k = 0 \/ a = << >> THEN << >>
    ELSE IF k = LimbBase THEN <<0>> \o a
    ELSE Propagate(Carries(AsSequence([i \in 1 .. Len(a) |-> a[i] * k])))

\* The sum of a[i] * b[j - i + 1] for i from lo to hi, by halves.
RECURSIVE ColumnSum(_, _, _, _, _)
ColumnSum(a, b, j, lo, hi) ==
    IF lo > hi THEN 0
    ELSE IF lo = hi THEN a[lo] * b[j - lo + 1]
    ELSE ColumnSum(a, b, j, lo, (lo + hi) \div 2)
         + ColumnSum(a, b, j, (lo + hi) \div 2 + 1, hi)

\* a * b: the sums of the digit products that fall on each digit, then three
\* rounds of carrying, which leave sums of at most LimbBase + 2.
BMul(a, b) ==
    IF a = << >> \/ b = << >> THEN << >>
    ELSE Propagate(Carries(Carries(Carries(AsSequence(
             [j \in 1 .. Len(a) + Len(b) - 1 |->
                 ColumnSum(a, b, j,
                           IF j > Len(b) THEN j - Len(b) + 1 ELSE 1,
                           IF j < Len(a) THEN j ELSE Len(a))])))))

\* The two or three most significant digits of r that stand at and above
\* the second most significant digit of b, as an integer.
TopOf(L, from) ==
    Digit(L, from) + LimbBase * Digit(L, from + 1)
        + LimbBase * LimbBase * Digit(L, from + 2)

\* The quotient r \div b and the remainder for r < b * LimbBase: a first
\* guess q from the leading digits that is not too large, made exact by
\* further guesses on what is left.
RECURSIVE BDivDigit(_, _, _)
BDivGuess(r, b, from) ==
    IF Len(b) >= 3 THEN TopOf(r, from) \div (TopOf(b, from) + 1)
    ELSE TopOf(r, 1) \div TopOf(b, 1)

BDivTake(r, b, q, guess) ==
    IF guess = 0 THEN BDivDigit(BSub(r, b), b, q + 1)
    ELSE BDivDigit(BSub(r, BMulSmall(b, guess)), b, q + guess)

BDivDigit(r, b, q) ==
    IF BCmp(r, b) < 0 \/ q >= LimbBase THEN [q |-> q, r |-> r]
    ELSE BDivTake(r, b, q,
                  BDivGuess(r, b, IF Len(b) >= 2 THEN Len(b) - 1 ELSE 1))

\* The quotient with the digit d.q put below it, and the remainder d.r.
BDivStep(d, q) == [q |-> <<d.q>> \o q, r |-> d.r]

\* Long division of a by b over the digits hi down to lo of a, by halves; st
\* is the quotient so far and the remainder so far, which is less than b.
RECURSIVE BDivFrom(_, _, _, _, _)
RECURSIVE BDivLower(_, _, _, _, _)
BDivFrom(a, b, hi, lo, st) ==
    IF hi < lo THEN st
    ELSE IF hi = lo
    THEN BDivStep(BDivDigit(Trim(<<a[hi]>> \o st.r), b, 0), st.q)
    ELSE BDivLower(a, b, (hi + lo + 1) \div 2 - 1, lo,
                   BDivFrom(a, b, hi, (hi + lo + 1) \div 2, st))

BDivLower(a, b, hi, lo, upper) ==
    IF Len(upper.r) > Len(b) THEN upper ELSE BDivFrom(a, b, hi, lo, upper)

BDivResult(st) == [q |-> Trim(st.q), r |-> st.r]

\* a \div b and a % b for b > 0; the digits of a above the length of b are
\* the first remainder.
BDivMod(a, b) ==
    IF BCmp(a, b) < 0 THEN [q |-> << >>, r |-> a]
    ELSE BDivResult(BDivFrom(a, b, Len(a) - Len(b) + 1, 1,
                             [q |-> << >>,
                              r |-> SubSeq(a, Len(a) - Len(b) + 2, Len(a))]))

\* a % b for b > 0.
BMod(a, b) == BDivMod(a, b).r

\* Up to k <= most steps of Euclid's algorithm on the pair p, by halves.
RECURSIVE BGcdSteps(_)
BGcdSteps(most) ==
    [p \in Seq(Seq(Nat)), k \in 0 .. most |->
        IF k = 0 \/ p[2] = << >> THEN p
        ELSE IF k = 1 THEN <<p[2], BMod(p[1], p[2])>>
        ELSE BGcdSteps(most)[BGcdSteps(most)[p, k \div 2], k - k \div 2]]

\* Euclid's algorithm: it ends within five steps for every decimal digit of
\* b, and one more when a < b.
BGcd(a, b) == BGcdSteps(15 * Len(b) + 2)[<<a, b>>, 15 * Len(b) + 2][1]

\* The digit sequence is that of an integer up to MaxInt, and that integer.
LimbsFit(L) ==
    \/ Len(L) <= 3
    \/ /\ Len(L) = 4
       /\ \/ L[4] < MaxInt \div (LimbBase * LimbBase * LimbBase)
          \/ /\ L[4] = MaxInt \div (LimbBase * LimbBase * LimbBase)
             /\ TopOf(L, 1) <= MaxInt % (LimbBase * LimbBase * LimbBase)
LimbsValue(L) ==
    TopOf(L, 1) + LimbBase * LimbBase * LimbBase * Digit(L, 4)

IsWide(a) == Len(a) = 3
IsFinite(a) == IsWide(a) \/ a[2] > 0

\* A finite value as sign, numerator digits and denominator digits.
Widen(a) ==
    IF IsWide(a) THEN [s |-> a[1], n |-> a[2], d |-> a[3]]
    ELSE [s |-> Sign(a[1]), n |-> Limbs(Abs(a[1])), d |-> Limbs(a[2])]

\* The value s * n / d, n and d without a common factor, in the form that
\* holds it.
Fit(s, n, d) ==
    IF LimbsFit(n) /\ LimbsFit(d)
    THEN <<s * LimbsValue(n), LimbsValue(d)>>
    ELSE <<s, n, d>>

\* <<n \div g, d \div g>> for a common factor g of n and d.
Reduced(n, d, g) ==
    IF g = <<1>> THEN <<n, d>>
    ELSE AsSequence([i \in 1 .. 2 |-> BDivMod(<<n, d>>[i], g).q])

\* The value s * n / d, nd being <<n, d>> without a common factor.
NarrowBy(s, nd) == Fit(s, nd[1], nd[2])

\* The value s * n / d in the form that holds it.
Narrow(s, n, d) ==
    IF n = << >> THEN R(0) ELSE NarrowBy(s, Reduced(n, d, BGcd(n, d)))

\* <<s, n>> with s * n = xs * xn + ys * yn, for digit sequences xn and yn
\* and signs xs and ys; the sign is 0 exactly when the digits are none.
SignedSum(xs, xn, ys, yn) ==
    IF xs = ys THEN <<xs, BAdd(xn, yn)>>
    ELSE IF BCmp(xn, yn) >= 0
    THEN <<xs, BSub(xn, yn)>>
    ELSE <<ys, BSub(yn, xn)>>

\* sn[1] * sn[2] / d.
WideSum(sn, d) == Narrow(sn[1], sn[2], d)

WideAdd(x, y) ==
    WideSum(SignedSum(x.s, BMul(x.n, y.d), y.s, BMul(y.n, x.d)),
            BMul(x.d, y.d))

WideMul(x, y) == Narrow(x.s * y.s, BMul(x.n, y.n), BMul(x.d, y.d))

\* x < y.
WideLess(x, y) ==
    IF x.s # y.s THEN x.s < y.s
    ELSE IF x.s = 0 THEN FALSE
    ELSE BCmp(BMul(x.n, y.d), BMul(y.n, x.d)) = -x.s

\* The product of the integers m and n is an integer of the model checker,
\* with room left for the sum of two such products.
SmallProduct(m, n) == n = 0 \/ Abs(m) <= (MaxInt \div 2) \div Abs(n)

RNeg(a) == IF IsWide(a) THEN <<-a[1], a[2], a[3]>> ELSE <<-a[1], a[2]>>
RAbs(a) == IF IsWide(a) THEN <<1, a[2], a[3]>> ELSE <<Abs(a[1]), a[2]>>
\* The sum of the finite values a and b held as pairs can be formed in the
\* integers of the model checker; g is Gcd(a[2], b[2]).
SumFits(a, b, g) ==
    /\ SmallProduct(a[1], b[2] \div g)
    /\ SmallProduct(b[1], a[2] \div g)
    /\ SmallProduct(a[2] \div g, b[2])

SumOfPairs(a, b, g) ==
    Normalise(a[1] * (b[2] \div g) + b[1] * (a[2] \div g),
              (a[2] \div g) * b[2])

RAdd(a, b) ==
    IF ~IsFinite(a) /\ ~IsFinite(b) THEN (IF a = b THEN a ELSE NaN)
    ELSE IF ~IsFinite(a) THEN a
    ELSE IF ~IsFinite(b) THEN b
    ELSE IF /\ ~IsWide(a)
            /\ ~IsWide(b)
            /\ SumFits(a, b, Gcd(a[2], b[2]))
    THEN SumOfPairs(a, b, Gcd(a[2], b[2]))
    ELSE WideAdd(Widen(a), Widen(b))
RSub(a, b) == RAdd(a, RNeg(b))
\* The product of the finite values a and b held as pairs can be formed in
\* the integers of the model checker; g1 is Gcd(|a[1]|, b[2]) and g2 is
\* Gcd(|b[1]|, a[2]).
ProductFits(a, b, g1, g2) ==
    /\ SmallProduct(a[1] \div g1, b[1] \div g2)
    /\ SmallProduct(a[2] \div g2, b[2] \div g1)

ProductOfPairs(a, b, g1, g2) ==
    Normalise((a[1] \div g1) * (b[1] \div g2),
              (a[2] \div g2) * (b[2] \div g1))

RMul(a, b) ==
    IF ~IsFinite(a) \/ ~IsFinite(b) THEN Normalise(a[1] * b[1], 0)
    ELSE IF /\ ~IsWide(a)
            /\ ~IsWide(b)
            /\ ProductFits(a, b, Gcd(Abs(a[1]), b[2]), Gcd(Abs(b[1]), a[2]))
    THEN ProductOfPairs(a, b, Gcd(Abs(a[1]), b[2]), Gcd(Abs(b[1]), a[2]))
    ELSE WideMul(Widen(a), Widen(b))
\* 1 / b.
Reciprocal(b) ==
    IF IsWide(b) THEN <<b[1], b[3], b[2]>> ELSE Normalise(b[2], b[1])
RDiv(a, b) == RMul(a, Reciprocal(b))
\* n1 / d1 < n2 / d2 for d1, d2 > 0, by comparing the integer parts and
\* then the reciprocals of the fractional parts, so that no product is formed.
RECURSIVE FractionLess(_, _, _, _)
FractionLess(n1, d1, n2, d2) ==
    IF n1 \div d1 # n2 \div d2 THEN n1 \div d1 < n2 \div d2
    ELSE IF n2 % d2 = 0 THEN FALSE
    ELSE IF n1 % d1 = 0 THEN TRUE
    ELSE FractionLess(d2, n2 % d2, d1, n1 % d1)

\* a < b as C compares doubles: false when either is NaN.
RLess(a, b) ==
    /\ a # NaN
    /\ b # NaN
    /\ IF IsFinite(a) /\ IsFinite(b)
       THEN IF IsWide(a) \/ IsWide(b) THEN WideLess(Widen(a), Widen(b))
            ELSE FractionLess(a[1], a[2], b[1], b[2])
       ELSE IF IsFinite(a) THEN b[1] > 0
       ELSE IF IsFinite(b) THEN a[1] < 0
       ELSE a[1] < b[1]

(***************************************************************************)
(* Grid2D (src/include/grid.h) and its construction.                       *)
(***************************************************************************)
Cells(nx, ny) == (0 .. nx - 1) \X (0 .. ny - 1)

\* A mutant of create_uniform_grid: the extent is divided by n, not n - 1.
create_uniform_gridByCount(nx, ny, x0, x1, y0, y1) ==
    [nx |-> nx, ny |-> ny, x0 |-> x0, x1 |-> x1, y0 |-> y0, y1 |-> y1,
     hx |-> RDiv(RSub(x1, x0), R(nx)),
     hy |-> RDiv(RSub(y1, y0), R(ny)),
     x |-> [k \in 1 .. nx |->
              RAdd(x0, RMul(R(k - 1), RDiv(RSub(x1, x0), R(nx))))],
     y |-> [k \in 1 .. ny |->
              RAdd(y0, RMul(R(k - 1), RDiv(RSub(y1, y0), R(ny))))],
     region |-> [c \in Cells(nx, ny) |-> 0],
     id_map |-> [c \in Cells(nx, ny) |-> -1],
     n_active |-> 0, n_interior |-> 0,
     id_i |-> << >>, id_j |-> << >>]

\* create_uniform_grid: the spacings and coordinates, divisions unguarded;
\* every region code 0, every id_map entry -1.
create_uniform_grid(nx, ny, x0, x1, y0, y1) ==
    [nx |-> nx, ny |-> ny, x0 |-> x0, x1 |-> x1, y0 |-> y0, y1 |-> y1,
     hx |-> RDiv(RSub(x1, x0), R(nx - 1)),
     hy |-> RDiv(RSub(y1, y0), R(ny - 1)),
     x |-> [k \in 1 .. nx |->
              RAdd(x0, RMul(R(k - 1), RDiv(RSub(x1, x0), R(nx - 1))))],
     y |-> [k \in 1 .. ny |->
              RAdd(y0, RMul(R(k - 1), RDiv(RSub(y1, y0), R(ny - 1))))],
     region |-> [c \in Cells(nx, ny) |-> 0],
     id_map |-> [c \in Cells(nx, ny) |-> -1],
     n_active |-> 0, n_interior |-> 0,
     id_i |-> << >>, id_j |-> << >>]

\* A mutant of CellOrder: j as the outer loop.
CellOrderColumnMajor(nx, ny) ==
    [k \in 1 .. nx * ny |-> <<(k - 1) % nx, (k - 1) \div nx>>]

\* The order in which the two nested loops visit the grid points:
\* i outer, j inner.
CellOrder(nx, ny) ==
    [k \in 1 .. nx * ny |-> <<(k - 1) \div ny, (k - 1) % ny>>]

\* A mutant of ClassifyPoint: the test is region_value >= 0.
ClassifyPointNonNegative(g, c, region_value) ==
    IF region_value >= 0
    THEN [g EXCEPT !.region[c] = region_value,
                   !.id_map[c] = g.n_active,
                   !.n_active = @ + 1,
                   !.n_interior = IF region_value = 1 THEN @ + 1 ELSE @]
    ELSE [g EXCEPT !.region[c] = 0, !.id_map[c] = -1]

\* A mutant of ClassifyPoint: n_active is advanced before it is stored.
ClassifyPointOffByOne(g, c, region_value) ==
    IF region_value > 0
    THEN [g EXCEPT !.region[c] = region_value,
                   !.id_map[c] = g.n_active + 1,
                   !.n_active = @ + 1,
                   !.n_interior = IF region_value = 1 THEN @ + 1 ELSE @]
    ELSE [g EXCEPT !.region[c] = 0, !.id_map[c] = -1]

\* The body of the first double loop of initialize_Grid for one point c,
\* given the code region_divider returned for it.
ClassifyPoint(g, c, region_value) ==
    IF region_value > 0
    THEN [g EXCEPT !.region[c] = region_value,
                   !.id_map[c] = g.n_active,
                   !.n_active = @ + 1,
                   !.n_interior = IF region_value = 1 THEN @ + 1 ELSE @]
    ELSE [g EXCEPT !.region[c] = 0, !.id_map[c] = -1]

\* The first double loop of initialize_Grid, from the k-th visited point on.
RECURSIVE ClassifyLoop(_, _, _, _)
ClassifyLoop(g, code, order, k) ==
    IF k > Len(order) THEN g
    ELSE ClassifyLoop(ClassifyPoint(g, order[k], code[order[k]]),
                      code, order, k + 1)

\* A mutant of RecordPoint: only interior points are recorded.
RecordPointInteriorOnly(g, c) ==
    IF g.region[c] = 1
    THEN [g EXCEPT !.id_i[g.id_map[c] + 1] = c[1],
                   !.id_j[g.id_map[c] + 1] = c[2]]
    ELSE g

\* The body of the second double loop of initialize_Grid for one point c.
RecordPoint(g, c) ==
    IF g.region[c] > 0
    THEN [g EXCEPT !.id_i[g.id_map[c] + 1] = c[1],
                   !.id_j[g.id_map[c] + 1] = c[2]]
    ELSE g

\* The second double loop of initialize_Grid, from the k-th visited point on.
RECURSIVE RecordLoop(_, _, _)
RecordLoop(g, order, k) ==
    IF k > Len(order) THEN g
    ELSE RecordLoop(RecordPoint(g, order[k]), order, k + 1)

\* initialize_Grid(nx, ny, ..., region_divider); code[<<i, j>>] is what
\* region_divider returns at (x[i], y[j]).  id_i and id_j are allocated
\* with n_active unwritten entries (shown as -1) and then filled.
initialize_Grid(nx, ny, x0, x1, y0, y1, code) ==
    LET g1 == ClassifyLoop(create_uniform_grid(nx, ny, x0, x1, y0, y1), code,
                           CellOrder(nx, ny), 1)
        g2 == [g1 EXCEPT !.id_i = [k \in 1 .. g1.n_active |-> -1],
                         !.id_j = [k \in 1 .. g1.n_active |-> -1]]
    IN  RecordLoop(g2, CellOrder(nx, ny), 1)

(***************************************************************************)
(* Inputs of initialize_Grid.                                              *)
(***************************************************************************)
GridDims == {d \in (0 .. MaxCells) \X (0 .. MaxCells) : d[1] * d[2] <= MaxCells}
GridCodes == -1 .. MaxCode
\* The rectangle [x0, x1] x [y0, y1] handed to initialize_Grid.
Domain == [x0 |-> R(0), x1 |-> R(2), y0 |-> R(0), y1 |-> R(1)]

\* The call of initialize_Grid with grid size d and a region_divider whose
\* values are drawn from codes.
InitializeGrid(dims, codes) ==
    /\ pc = "start"
    /\ \E d \in dims :
         \E code \in [Cells(d[1], d[2]) -> codes] :
            /\ divider' = [nx |-> d[1], ny |-> d[2], code |-> code]
            /\ grid' = initialize_Grid(d[1], d[2], Domain.x0, Domain.x1,
                                       Domain.y0, Domain.y1, code)
    /\ pc' = "grid"
    /\ UNCHANGED <<mat, call>>

InitGrid ==
    /\ pc = "start"
    /\ divider = [nx |-> 0, ny |-> 0, code |-> << >>]
    /\ grid = NoGrid
    /\ mat = NoMatrix
    /\ call = NoCall

NextGrid == InitializeGrid(GridDims, GridCodes)

SpecGrid == InitGrid /\ [][NextGrid]_vars

(***************************************************************************)
(* Claims about initialize_Grid (checked under SpecGrid).                  *)
(***************************************************************************)
\* The points region_divider gave a positive code.
ActivePoints == {c \in Cells(divider.nx, divider.ny) : divider.code[c] > 0}

\* c1 is visited before c2 by a row-major scan (i outer, j inner).
LexBefore(c1, c2) == c1[1] < c2[1] \/ (c1[1] = c2[1] /\ c1[2] < c2[2])

\* C1: after initialize_Grid returns, n_active is the number of grid points
\* whose region code is positive, and id_map restricted to those points is a
\* bijection onto 0 .. n_active - 1.
C1_ActiveIndexBijection ==
    pc = "grid" =>
        /\ grid.n_active = Cardinality(ActivePoints)
        /\ \A c \in ActivePoints : grid.id_map[c] \in 0 .. grid.n_active - 1
        /\ \A c1, c2 \in ActivePoints :
              grid.id_map[c1] = grid.id_map[c2] => c1 = c2
        /\ \A k \in 0 .. grid.n_active - 1 :
              \E c \in ActivePoints : grid.id_map[c] = k

C1_Witness ==
    /\ pc = "grid"
    /\ grid.n_active >= 3
    /\ grid.n_active < divider.nx * divider.ny
    /\ \E c \in ActivePoints : divider.code[c] >= 2
    /\ \E c \in ActivePoints : divider.code[c] = 1

\* C2: after initialize_Grid, id_map[i][j] >= 0 exactly when region[i][j] > 0
\* and id_map[i][j] = -1 otherwise, whatever region_divider returned: a point
\* is stored with a positive region exactly when its code was positive.
C2_IdMapMatchesRegion ==
    pc = "grid" =>
        \A c \in Cells(divider.nx, divider.ny) :
            /\ grid.id_map[c] >= 0 <=> grid.region[c] > 0
            /\ grid.region[c] <= 0 => grid.id_map[c] = -1
            /\ grid.region[c] > 0 <=> divider.code[c] > 0

C2_Witness ==
    /\ pc = "grid"
    /\ \E c \in Cells(divider.nx, divider.ny) :
          divider.code[c] < 0 /\ grid.id_map[c] = -1
    /\ \E c \in Cells(divider.nx, divider.ny) :
          divider.code[c] = 0 /\ grid.id_map[c] = -1
    /\ \E c \in Cells(divider.nx, divider.ny) :
          divider.code[c] > 0 /\ grid.id_map[c] >= 0

\* C3: after initialize_Grid, id_i and id_j invert id_map: every one of their
\* n_active entries is written, id_map[id_i[k]][id_j[k]] = k for every active
\* index k, and id_i[id_map[i][j]] = i, id_j[id_map[i][j]] = j for every
\* active point, boundary points (code >= 2) included.
C3_ReverseMapsInvert ==
    pc = "grid" =>
        /\ Len(grid.id_i) = grid.n_active
        /\ Len(grid.id_j) = grid.n_active
        /\ \A k \in 0 .. grid.n_active - 1 :
              /\ <<At(grid.id_i, k), At(grid.id_j, k)>>
                    \in Cells(grid.nx, grid.ny)
              /\ grid.id_map[<<At(grid.id_i, k), At(grid.id_j, k)>>] = k
        /\ \A c \in Cells(grid.nx, grid.ny) :
              grid.region[c] > 0 =>
                 /\ At(grid.id_i, grid.id_map[c]) = c[1]
                 /\ At(grid.id_j, grid.id_map[c]) = c[2]

C3_Witness ==
    /\ pc = "grid"
    /\ grid.n_active >= 3
    /\ \E c \in Cells(grid.nx, grid.ny) :
          /\ grid.region[c] >= 2
          /\ grid.id_map[c] >= 1
          /\ At(grid.id_i, grid.id_map[c]) = c[1]
          /\ At(grid.id_j, grid.id_map[c]) = c[2]
    /\ \E c \in Cells(grid.nx, grid.ny) : grid.region[c] = 0

\* C4: active indices are assigned in row-major order, i outer and j inner:
\* id_map[c1] < id_map[c2] exactly when c1 precedes c2 lexicographically, and
\* two active points (i, j) and (i, j+1) have consecutive indices.
C4_RowMajorOrder ==
    pc = "grid" =>
        /\ \A c1, c2 \in ActivePoints :
              grid.id_map[c1] < grid.id_map[c2] <=> LexBefore(c1, c2)
        /\ \A c \in ActivePoints :
              <<c[1], c[2] + 1>> \in ActivePoints =>
                 grid.id_map[<<c[1], c[2] + 1>>] = grid.id_map[c] + 1

C4_Witness ==
    /\ pc = "grid"
    /\ divider.nx >= 2
    /\ divider.ny >= 2
    /\ \E c \in ActivePoints :
          /\ <<c[1], c[2] + 1>> \in ActivePoints
          /\ <<c[1] + 1, c[2]>> \in ActivePoints
          /\ grid.id_map[<<c[1] + 1, c[2]>>] > grid.id_map[<<c[1], c[2] + 1>>]

(***************************************************************************)
(* SparseCSR (src/include/csr.h) and the kernels of src/src/sparse/csr.c.  *)
(***************************************************************************)
\* What a malloc'ed int or double holds before it is written.
UnwrittenInt == -7
UnwrittenValue == <<0, -1>>

\* createSparseCSR: nnz is the declared capacity; nothing is written yet.
createSparseCSR(rows, cols, nnz) ==
    [rows |-> rows, cols |-> cols, nnz |-> nnz,
     row_ptr |-> [k \in 1 .. rows + 1 |-> UnwrittenInt],
     col_ind |-> [k \in 1 .. nnz |-> UnwrittenInt],
     values |-> [k \in 1 .. nnz |-> UnwrittenValue]]

\* The inner loop of spmv_csr for row i: y[i] += values[j] * x[col_ind[j]]
\* for j from its current value to row_ptr[i + 1] - 1; acc is y[i].
RECURSIVE SpmvRow(_, _, _, _, _)
SpmvRow(matrix, x, i, j, acc) ==
    IF j >= At(matrix.row_ptr, i + 1) THEN acc
    ELSE SpmvRow(matrix, x, i, j + 1,
             RAdd(acc, RMul(At(matrix.values, j),
                            At(x, At(matrix.col_ind, j)))))

\* A mutant of spmv_csr: the inner loop starts at j = 0 for every row.
spmv_csrFromZero(matrix, x) ==
    [k \in 1 .. matrix.rows |-> SpmvRow(matrix, x, k - 1, 0, R(0))]

\* spmv_csr(matrix, x, y): the y it leaves (entries 0 .. rows - 1).
spmv_csr(matrix, x) ==
    [k \in 1 .. matrix.rows |->
        SpmvRow(matrix, x, k - 1, At(matrix.row_ptr, k - 1), R(0))]

\* First pass of get_D_L_U_csr: the number of stored entries of the rows
\* i, i+1, ... (from position j of row i on) on the side of the diagonal
\* that side selects: -1 for col < row, 1 for col > row.
RECURSIVE CountSide(_, _, _, _)
CountSide(matrix, side, i, j) ==
    IF i >= matrix.rows THEN 0
    ELSE IF j >= At(matrix.row_ptr, i + 1)
         THEN CountSide(matrix, side, i + 1, At(matrix.row_ptr, i + 1))
         ELSE (IF Sign(At(matrix.col_ind, j) - i) = side THEN 1 ELSE 0)
              + CountSide(matrix, side, i, j + 1)

\* A mutant of RouteEntry: entries above the diagonal are dropped.
RouteEntryDropUpper(st, i, col, val) ==
    IF col < i
    THEN [st EXCEPT !.L.col_ind[st.idx_L + 1] = col,
                    !.L.values[st.idx_L + 1] = val,
                    !.idx_L = @ + 1]
    ELSE IF col = i
    THEN [st EXCEPT !.diag.values[i + 1] = val]
    ELSE [st EXCEPT !.idx_U = @ + 1]

\* Second pass of get_D_L_U_csr, one stored entry (col, val) of row i.
RouteEntry(st, i, col, val) ==
    IF col < i
    THEN [st EXCEPT !.L.col_ind[st.idx_L + 1] = col,
                    !.L.values[st.idx_L + 1] = val,
                    !.idx_L = @ + 1]
    ELSE IF col = i
    THEN [st EXCEPT !.diag.values[i + 1] = val]
    ELSE [st EXCEPT !.U.col_ind[st.idx_U + 1] = col,
                    !.U.values[st.idx_U + 1] = val,
                    !.idx_U = @ + 1]

\* Second pass, the inner loop of row i from position j on.
RECURSIVE RouteRow(_, _, _, _)
RouteRow(matrix, st, i, j) ==
    IF j >= At(matrix.row_ptr, i + 1) THEN st
    ELSE RouteRow(matrix,
                  RouteEntry(st, i, At(matrix.col_ind, j), At(matrix.values, j)),
                  i, j + 1)

\* A mutant of RouteRows: the diagonal value of a row is not zeroed before
\* the row is scanned.
RECURSIVE RouteRowsNoZero(_, _, _)
RouteRowsNoZero(matrix, st, i) ==
    IF i >= matrix.rows THEN st
    ELSE LET s1 == [st EXCEPT !.diag.col_ind[st.idx_diag + 1] = i,
                              !.idx_diag = @ + 1]
             s2 == RouteRow(matrix, s1, i, At(matrix.row_ptr, i))
             s3 == [s2 EXCEPT !.diag.row_ptr[i + 2] = s2.idx_diag,
                              !.L.row_ptr[i + 2] = s2.idx_L,
                              !.U.row_ptr[i + 2] = s2.idx_U]
         IN  RouteRowsNoZero(matrix, s3, i + 1)

\* Second pass, the outer loop from row i on.
RECURSIVE RouteRows(_, _, _)
RouteRows(matrix, st, i) ==
    IF i >= matrix.rows THEN st
    ELSE LET s1 == [st EXCEPT !.diag.col_ind[st.idx_diag + 1] = i,
                              !.diag.values[st.idx_diag + 1] = R(0),
                              !.idx_diag = @ + 1]
             s2 == RouteRow(matrix, s1, i, At(matrix.row_ptr, i))
             s3 == [s2 EXCEPT !.diag.row_ptr[i + 2] = s2.idx_diag,
                              !.L.row_ptr[i + 2] = s2.idx_L,
                              !.U.row_ptr[i + 2] = s2.idx_U]
         IN  RouteRows(matrix, s3, i + 1)

\* get_D_L_U_csr(matrix): the array <<D, L, U>> it returns.
get_D_L_U_csr(matrix) ==
    LET rows == matrix.rows
        cols == matrix.cols
        nnz_L == CountSide(matrix, -1, 0, At(matrix.row_ptr, 0))
        nnz_U == CountSide(matrix, 1, 0, At(matrix.row_ptr, 0))
        st0 == [diag |-> [createSparseCSR(rows, cols, rows)
                             EXCEPT !.row_ptr[1] = 0],
                L |-> [createSparseCSR(rows, cols, nnz_L)
                             EXCEPT !.row_ptr[1] = 0],
                U |-> [createSparseCSR(rows, cols, nnz_U)
                             EXCEPT !.row_ptr[1] = 0],
                idx_diag |-> 0, idx_L |-> 0, idx_U |-> 0]
        st == RouteRows(matrix, st0, 0)
    IN  <<st.diag, st.L, st.U>>

(***************************************************************************)
(* Jacobi_csr (src/src/sparse/csr.c).                                      *)
(***************************************************************************)
\* The inner loop of a solver row i from position j on: diag takes the
\* value of an entry with col_ind = i, the others add values[j] * x[col]
\* to sum.  Returns <<sum, diag>>.
RECURSIVE RowSumDiag(_, _, _, _, _, _)
RowSumDiag(matrix, x, i, j, sum, diag) ==
    IF j >= At(matrix.row_ptr, i + 1) THEN <<sum, diag>>
    ELSE IF At(matrix.col_ind, j) = i
         THEN RowSumDiag(matrix, x, i, j + 1, sum, At(matrix.values, j))
         ELSE RowSumDiag(matrix, x, i, j + 1,
                  RAdd(sum, RMul(At(matrix.values, j),
                                 At(x, At(matrix.col_ind, j)))),
                  diag)

\* (b[i] - sum) / diag for row i, read from the vector x.
RowQuotient(bi, sd) == RDiv(RSub(bi, sd[1]), sd[2])

\* A mutant of RowUpdate: a row whose diagonal is 0 keeps its x[i].
RowUpdateGuarded(matrix, b, x, i) ==
    IF RowSumDiag(matrix, x, i, At(matrix.row_ptr, i), R(0), R(0))[2] = R(0)
    THEN At(x, i)
    ELSE RowQuotient(At(b, i),
                     RowSumDiag(matrix, x, i, At(matrix.row_ptr, i),
                                R(0), R(0)))

RowUpdate(matrix, b, x, i) ==
    RowQuotient(At(b, i),
                RowSumDiag(matrix, x, i, At(matrix.row_ptr, i), R(0), R(0)))

\* A mutant of JacobiStore: the row's result is also stored into x at once.
JacobiStoreInPlace(xs, i, v) ==
    [x |-> [xs.x EXCEPT ![i + 1] = v], x_new |-> [xs.x_new EXCEPT ![i + 1] = v]]

\* x_new[i] = v in the first loop of a Jacobi sweep; xs is [x, x_new].
JacobiStore(xs, i, v) ==
    [x |-> xs.x, x_new |-> [xs.x_new EXCEPT ![i + 1] = v]]

\* The rows of a matrix in the order the solvers' row loop visits them.
RowOrder(n) == [k \in 1 .. n |-> k - 1]

\* The first loop of a Jacobi sweep from the k-th visited row on.
RECURSIVE JacobiRows(_, _, _, _, _)
JacobiRows(matrix, b, xs, order, k) ==
    IF k > Len(order) THEN xs
    ELSE JacobiRows(matrix, b,
                    JacobiStore(xs, order[k],
                                RowUpdate(matrix, b, xs.x, order[k])),
                    order, k + 1)

\* The second loop of a Jacobi sweep from row i on:
\* norm += (x_new[i] - x[i])^2; x[i] = x_new[i].  st is [x, x_new, norm].
Square(d) == RMul(d, d)

RECURSIVE JacobiCopy(_, _, _)
JacobiCopy(st, n, i) ==
    IF i >= n THEN st
    ELSE JacobiCopy([st EXCEPT
                       !.norm = RAdd(@, Square(RSub(At(st.x_new, i),
                                                    At(st.x, i)))),
                       !.x[i + 1] = At(st.x_new, i)],
                    n, i + 1)

\* A mutant of SqrtLess: the test is sqrt(norm) <= tol.
SqrtLessOrEqual(norm, tol) ==
    RLess(R(0), tol) /\ ~RLess(RMul(tol, tol), norm) /\ norm # NaN

\* sqrt(norm) < tol, for a norm that is a sum of squares.
SqrtLess(norm, tol) == RLess(R(0), tol) /\ RLess(norm, RMul(tol, tol))

\* One sweep of Jacobi_csr, visiting the rows in the given order; x_new is
\* the malloc'ed temporary as the previous sweep left it.
JacobiNorm(xs, n) ==
    JacobiCopy([x |-> xs.x, x_new |-> xs.x_new, norm |-> R(0)], n, 0)

JacobiSweep(matrix, b, x, x_new, order) ==
    JacobiNorm(JacobiRows(matrix, b, [x |-> x, x_new |-> x_new], order, 1),
               matrix.rows)

\* The iteration loop of Jacobi_csr from iteration iter on; trace collects
\* x as it stands before the first sweep and after every sweep.
RECURSIVE JacobiLoop(_, _, _, _, _, _, _, _)
\* The rest of an iteration of Jacobi_csr after its sweep, which left st.
JacobiTest(matrix, b, st, iter, max_iter, tol, trace) ==
    IF SqrtLess(st.norm, tol)
    THEN [x |-> st.x, iters |-> iter + 1, trace |-> Append(trace, st.x)]
    ELSE JacobiLoop(matrix, b, st.x, st.x_new, iter + 1, max_iter, tol,
                    Append(trace, st.x))

JacobiLoop(matrix, b, x, x_new, iter, max_iter, tol, trace) ==
    IF iter >= max_iter THEN [x |-> x, iters |-> iter, trace |-> trace]
    ELSE JacobiTest(matrix, b,
                    JacobiSweep(matrix, b, x, x_new, RowOrder(matrix.rows)),
                    iter, max_iter, tol, trace)

\* Jacobi_csr(matrix, b, x, max_iter, tol): the x it leaves, the number of
\* sweeps it ran and the x after each.
Jacobi_csr(matrix, b, x, max_iter, tol) ==
    JacobiLoop(matrix, b, x, [k \in 1 .. matrix.rows |-> UnwrittenValue],
               0, max_iter, tol, <<x>>)

(***************************************************************************)
(* Inputs of the CSR kernels.                                              *)
(***************************************************************************)
MatVals == {R(1), R(2)}
VecVals == {R(0), R(1)}

RowPtrs(n, k) ==
    {rp \in [1 .. n + 1 -> 0 .. k] :
        /\ rp[1] = 0
        /\ rp[n + 1] = k
        /\ \A i \in 1 .. n : rp[i] <= rp[i + 1]}

\* Every square CSR matrix of n rows with k stored entries, in any order
\* within a row, repeated columns included.
CsrOfSize(n, k) ==
    {[rows |-> n, cols |-> n, nnz |-> k,
      row_ptr |-> rp, col_ind |-> ci, values |-> v] :
        rp \in RowPtrs(n, k), ci \in [1 .. k -> 0 .. n - 1],
        v \in [1 .. k -> MatVals]}

IdentityCSR(n) ==
    [rows |-> n, cols |-> n, nnz |-> n,
     row_ptr |-> [k \in 1 .. n + 1 |-> k - 1],
     col_ind |-> [k \in 1 .. n |-> k - 1],
     values |-> [k \in 1 .. n |-> R(1)]]

\* A matrix whose row 0 is a zeroed boundary row as
\* assemble_Matrix_Parabolic_Explicit emits it: the diagonal, stored as 0.
ZeroedRowCSR ==
    [rows |-> 2, cols |-> 2, nnz |-> 3,
     row_ptr |-> <<0, 1, 3>>,
     col_ind |-> <<0, 0, 1>>,
     values |-> <<R(0), R(1), R(2)>>]

CsrMatrices ==
    UNION {CsrOfSize(n, k) : n \in 0 .. MaxRows, k \in 0 .. MaxNnz}
    \cup {IdentityCSR(n) : n \in 0 .. MaxIdentityRows}
    \cup {ZeroedRowCSR}

Vectors(n) == [1 .. n -> VecVals]
Tols == {<<1, 2>>}

\* A call spmv_csr(mat, x, y).
Spmv ==
    /\ pc = "matrix"
    /\ \E x \in Vectors(mat.rows) :
          call' = [op |-> "spmv_csr", x_in |-> x, x |-> x,
                   y |-> spmv_csr(mat, x)]
    /\ pc' = "called"
    /\ UNCHANGED <<divider, grid, mat>>

\* A call get_D_L_U_csr(mat).
GetDLU ==
    /\ pc = "matrix"
    /\ call' = [op |-> "get_D_L_U_csr", result |-> get_D_L_U_csr(mat)]
    /\ pc' = "called"
    /\ UNCHANGED <<divider, grid, mat>>

\* A call Jacobi_csr(mat, b, x, max_iter, tol).
Jacobi ==
    /\ pc = "matrix"
    /\ \E b \in Vectors(mat.rows), x \in Vectors(mat.rows),
          max_iter \in 0 .. MaxIter, tol \in Tols :
          call' = [op |-> "Jacobi_csr", b |-> b, x_in |-> x,
                   max_iter |-> max_iter, tol |-> tol,
                   out |-> Jacobi_csr(mat, b, x, max_iter, tol)]
    /\ pc' = "called"
    /\ UNCHANGED <<divider, grid, mat>>

InitCsr ==
    /\ pc = "matrix"
    /\ divider = [nx |-> 0, ny |-> 0, code |-> << >>]
    /\ grid = NoGrid
    /\ mat \in CsrMatrices
    /\ call = NoCall

NextCsr ==
    \/ Spmv
    \/ GetDLU
    \/ Jacobi

SpecCsr == InitCsr /\ [][NextCsr]_vars

(***************************************************************************)
(* Claims about the CSR kernels (checked under SpecCsr).                   *)
(***************************************************************************)
\* The row that holds position k (0-based) of col_ind / values.
RowOf(m, k) ==
    CHOOSE i \in 0 .. m.rows - 1 :
        At(m.row_ptr, i) <= k /\ k < At(m.row_ptr, i + 1)

\* The (row, col, value) triple stored at position k of m.
TripleAt(m, k) == <<RowOf(m, k), At(m.col_ind, k), At(m.values, k)>>

\* How many times m stores the triple t.
TripleCount(m, t) ==
    Cardinality({k \in 0 .. m.nnz - 1 : TripleAt(m, k) = t})

\* The number of entries of row i of m stored with col_ind = i.
DiagonalEntries(m, i) ==
    Cardinality({k \in At(m.row_ptr, i) .. At(m.row_ptr, i + 1) - 1 :
                    At(m.col_ind, k) = i})

\* D, L and U together store exactly the triples of A, as a multiset.
SplitReconstructs(A, dlu) ==
    /\ dlu[1].nnz + dlu[2].nnz + dlu[3].nnz = A.nnz
    /\ \A k \in 0 .. A.nnz - 1 :
          LET t == TripleAt(A, k)
          IN  TripleCount(A, t) = TripleCount(dlu[1], t)
                                  + TripleCount(dlu[2], t)
                                  + TripleCount(dlu[3], t)

\* C5: for every n >= 0 and every x of length n, spmv_csr on the n-by-n
\* identity (row_ptr[i] = i, col_ind[i] = i, values[i] = 1) writes y with
\* y[i] = x[i] for all i and leaves x and the matrix as they were.
C5_SpmvIdentity ==
    (pc = "called" /\ call.op = "spmv_csr"
        /\ \E n \in 0 .. MaxIdentityRows : mat = IdentityCSR(n)) =>
        /\ Len(call.y) = mat.rows
        /\ \A i \in 0 .. mat.rows - 1 : At(call.y, i) = At(call.x_in, i)
        /\ call.x = call.x_in

C5_Witness ==
    /\ pc = "called"
    /\ call.op = "spmv_csr"
    /\ mat = IdentityCSR(3)
    /\ call.x_in = <<R(1), R(0), R(1)>>
    /\ call.y = call.x_in

\* C6 as amended: for any CSR matrix with exactly one stored diagonal entry
\* in every row, the D, L and U of get_D_L_U_csr together hold exactly the
\* multiset of (row, col, value) triples of A.
C6_SplitReconstructsOneDiagonal ==
    (pc = "called" /\ call.op = "get_D_L_U_csr"
        /\ \A i \in 0 .. mat.rows - 1 : DiagonalEntries(mat, i) = 1) =>
        SplitReconstructs(mat, call.result)

C6_Witness ==
    /\ pc = "called"
    /\ call.op = "get_D_L_U_csr"
    /\ mat.rows = 2
    /\ mat.nnz = 4
    /\ \A i \in 0 .. mat.rows - 1 : DiagonalEntries(mat, i) = 1
    /\ call.result[2].nnz = 1
    /\ call.result[3].nnz = 1
    /\ SplitReconstructs(mat, call.result)

\* C6 as stated: for any CSR matrix with a diagonal entry in every row, the
\* D, L and U of get_D_L_U_csr together hold exactly the multiset of
\* (row, col, value) triples of A.
C6_SplitReconstructsSomeDiagonal ==
    (pc = "called" /\ call.op = "get_D_L_U_csr"
        /\ \A i \in 0 .. mat.rows - 1 : DiagonalEntries(mat, i) >= 1) =>
        SplitReconstructs(mat, call.result)

(***************************************************************************)
(* Claims about Jacobi_csr (checked under SpecCsr).                        *)
(***************************************************************************)
\* A[i, j]: the sum of the values row i stores for column j (0 if none).
RECURSIVE DenseEntry(_, _, _, _)
DenseEntry(m, i, j, k) ==
    IF k >= At(m.row_ptr, i + 1) THEN R(0)
    ELSE RAdd(IF At(m.col_ind, k) = j THEN At(m.values, k) ELSE R(0),
              DenseEntry(m, i, j, k + 1))

StoresColumn(m, i, j) ==
    \E k \in At(m.row_ptr, i) .. At(m.row_ptr, i + 1) - 1 :
        At(m.col_ind, k) = j

\* The sum over the columns j, j+1, ... other than i that row i stores of
\* A[i, j] * x[j].
RECURSIVE OffDiagonalSum(_, _, _, _)
OffDiagonalSum(m, x, i, j) ==
    IF j >= m.cols THEN R(0)
    ELSE RAdd(IF j # i /\ StoresColumn(m, i, j)
              THEN RMul(DenseEntry(m, i, j, At(m.row_ptr, i)), At(x, j))
              ELSE R(0),
              OffDiagonalSum(m, x, i, j + 1))

\* (b[i] - sum over j # i of A[i, j] * x_old[j]) / A[i, i].
SynchronousRow(m, b, x_old, i) ==
    RDiv(RSub(At(b, i), OffDiagonalSum(m, x_old, i, 0)),
         DenseEntry(m, i, i, At(m.row_ptr, i)))

ReverseOrder(n) == [k \in 1 .. n |-> n - k]

\* C10: every sweep of Jacobi_csr is a synchronous update: on a matrix that
\* stores at most one diagonal entry per row, the x after a sweep has
\* x[i] = (b[i] - sum over j # i of A[i,j] * x_old[j]) / A[i,i] for every
\* row i, x_old being the x before the sweep, and visiting the rows in the
\* reverse order gives the same x.
C10_JacobiSynchronous ==
    (pc = "called" /\ call.op = "Jacobi_csr"
        /\ \A i \in 0 .. mat.rows - 1 : DiagonalEntries(mat, i) <= 1) =>
        \A k \in 1 .. Len(call.out.trace) - 1 :
            LET x_old == call.out.trace[k]
                x_next == call.out.trace[k + 1]
            IN  /\ \A i \in 0 .. mat.rows - 1 :
                      At(x_next, i) = SynchronousRow(mat, call.b, x_old, i)
                /\ JacobiSweep(mat, call.b, x_old, x_old,
                               ReverseOrder(mat.rows)).x = x_next

C10_Witness ==
    /\ pc = "called"
    /\ call.op = "Jacobi_csr"
    /\ mat.rows = 2
    /\ mat.nnz = 4
    /\ \A i \in 0 .. mat.rows - 1 : DiagonalEntries(mat, i) = 1
    /\ call.out.iters = 2
    /\ At(call.out.trace[2], 0) # At(call.out.trace[1], 0)
    /\ At(call.out.trace[3], 1) = SynchronousRow(mat, call.b, call.out.trace[2], 1)
    /\ At(call.out.trace[3], 1) # At(call.out.trace[2], 1)

(***************************************************************************)
(* The assemblers of src/src/pde/poisson2d.c and src/src/pde/parabolic.c.  *)
(*                                                                         *)
(* An assembler state st is [matrix, idx, flag, overrun, fault]: the       *)
(* matrix createSparseCSR allocated, the running index, the Neumann        *)
(* assembler's flag, whether an entry was written at or past the declared  *)
(* capacity, and whether a read outside id_map ended the process; once it  *)
(* has, nothing more is written.                                           *)
(*                                                                         *)
(* A read of id_map[gi][gj] outside the grid is undefined behaviour; oob   *)
(* is what it does in this call: the process faults, or the read returns   *)
(* the int oob.value.                                                      *)
(***************************************************************************)
AsmStart(n_active, capacity) ==
    [matrix |-> [createSparseCSR(n_active, n_active, capacity)
                    EXCEPT !.row_ptr[1] = 0],
     idx |-> 0, flag |-> 1, overrun |-> FALSE, fault |-> FALSE]

\* col_ind[idx] = col; values[idx] = val; idx++.
Emit(st, col, val) ==
    IF st.idx < Len(st.matrix.col_ind)
    THEN [st EXCEPT !.matrix.col_ind[st.idx + 1] = col,
                    !.matrix.values[st.idx + 1] = val,
                    !.idx = @ + 1]
    ELSE [st EXCEPT !.idx = @ + 1, !.overrun = TRUE]

\* A mutant of EmitNeighbour: no entry is emitted for a neighbour whose
\* id_map entry is negative.
EmitNeighbourSkipInactive(st, g, gi, gj, val, oob) ==
    IF st.fault THEN st
    ELSE IF <<gi, gj>> \in Cells(g.nx, g.ny)
    THEN (IF g.id_map[<<gi, gj>>] < 0 THEN st
          ELSE Emit(st, g.id_map[<<gi, gj>>], val))
    ELSE IF oob.fault THEN [st EXCEPT !.fault = TRUE]
         ELSE Emit(st, oob.value, val)

\* col = grid->id_map[gi][gj], followed by Emit(col, val).
EmitNeighbour(st, g, gi, gj, val, oob) ==
    IF st.fault THEN st
    ELSE IF <<gi, gj>> \in Cells(g.nx, g.ny)
    THEN Emit(st, g.id_map[<<gi, gj>>], val)
    ELSE IF oob.fault THEN [st EXCEPT !.fault = TRUE]
         ELSE Emit(st, oob.value, val)

\* row_ptr[i + 1] = idx.
CloseRow(st, i) == [st EXCEPT !.matrix.row_ptr[i + 2] = st.idx]

\* A mutant of Finish: matrix->nnz keeps the declared capacity.
FinishKeepCapacity(st) ==
    [matrix |-> st.matrix, idx |-> st.idx,
     capacity |-> Len(st.matrix.col_ind),
     overrun |-> st.overrun, fault |-> st.fault]

\* matrix->nnz = idx; return matrix.  The record keeps, beside the matrix,
\* the final running index and the capacity that was declared.
Finish(st) ==
    [matrix |-> [st.matrix EXCEPT !.nnz = st.idx], idx |-> st.idx,
     capacity |-> Len(st.matrix.col_ind),
     overrun |-> st.overrun, fault |-> st.fault]

\* The five entries of an interior row: centre, left, right, down, up.
FivePoint(st, g, i, centre, wx, wy, oob) ==
    LET gi == At(g.id_i, i)
        gj == At(g.id_j, i)
        s1 == Emit(st, i, centre)
        s2 == EmitNeighbour(s1, g, gi - 1, gj, wx, oob)
        s3 == EmitNeighbour(s2, g, gi + 1, gj, wx, oob)
        s4 == EmitNeighbour(s3, g, gi, gj - 1, wy, oob)
    IN  EmitNeighbour(s4, g, gi, gj + 1, wy, oob)

\* The three entries of an interior row of an ADI operator in x:
\* centre, left, right.
ThreePointX(st, g, i, centre, w, oob) ==
    LET gi == At(g.id_i, i)
        gj == At(g.id_j, i)
        s1 == Emit(st, i, centre)
        s2 == EmitNeighbour(s1, g, gi - 1, gj, w, oob)
    IN  EmitNeighbour(s2, g, gi + 1, gj, w, oob)

\* The three entries of an interior row of an ADI operator in y:
\* centre, down, up.
ThreePointY(st, g, i, centre, w, oob) ==
    LET gi == At(g.id_i, i)
        gj == At(g.id_j, i)
        s1 == Emit(st, i, centre)
        s2 == EmitNeighbour(s1, g, gi, gj - 1, w, oob)
    IN  EmitNeighbour(s2, g, gi, gj + 1, w, oob)

\* A mutant of IsInterior: every active point counts as interior.
IsInteriorAnyActive(g, i) == g.region[<<At(g.id_i, i), At(g.id_j, i)>>] >= 1

IsInterior(g, i) == g.region[<<At(g.id_i, i), At(g.id_j, i)>>] = 1

\* assemble_Matrix_Dirichlet: the row loop from active index i on.
RECURSIVE DirichletRows(_, _, _, _)
DirichletRows(st, g, i, oob) ==
    IF st.fault \/ i >= g.n_active THEN st
    ELSE LET s1 == IF IsInterior(g, i)
                   THEN FivePoint(st, g, i, R(4), R(-1), R(-1), oob)
                   ELSE Emit(st, i, R(1))
         IN  DirichletRows(CloseRow(s1, i), g, i + 1, oob)

\* A mutant of assemble_Matrix_Dirichlet: the capacity of an ADI operator.
assemble_Matrix_DirichletThreePerRow(g, oob) ==
    Finish(DirichletRows(AsmStart(g.n_active, 3 * g.n_active),
                         g, 0, oob))

assemble_Matrix_Dirichlet(g, oob) ==
    Finish(DirichletRows(AsmStart(g.n_active, 5 * g.n_active),
                         g, 0, oob))

\* fabs(w) > 1e-12 for a trigonometric weight w.  The normals of the model
\* have sines and cosines that are 0 or at least 3/5 in size, so the test
\* is decided by w # 0.
AboveTolerance(w) == RLess(R(0), RAbs(w))

\* A mutant of NeumannBoundary: the neighbour of a positive sine or cosine
\* gets the weight itself, not its negation.
NeumannBoundaryUnsigned(st, g, i, normal, oob) ==
    LET gi == At(g.id_i, i)
        gj == At(g.id_j, i)
        sin == normal.sin
        cos == normal.cos
        s1 == Emit(st, i, RAdd(RAbs(sin), RAbs(cos)))
        s2 == IF AboveTolerance(sin)
              THEN IF RLess(R(0), sin)
                   THEN EmitNeighbour(s1, g, gi, gj - 1, sin, oob)
                   ELSE EmitNeighbour(s1, g, gi, gj + 1, sin, oob)
              ELSE s1
    IN  IF AboveTolerance(cos)
        THEN IF RLess(R(0), cos)
             THEN EmitNeighbour(s2, g, gi - 1, gj, cos, oob)
             ELSE EmitNeighbour(s2, g, gi + 1, gj, cos, oob)
        ELSE s2

\* The row of a boundary point in assemble_Matrix_Neumann; normal holds
\* sin(alpha) and cos(alpha) of the angle get_normal returned.
NeumannBoundary(st, g, i, normal, oob) ==
    LET gi == At(g.id_i, i)
        gj == At(g.id_j, i)
        sin == normal.sin
        cos == normal.cos
        s1 == Emit(st, i, RAdd(RAbs(sin), RAbs(cos)))
        s2 == IF AboveTolerance(sin)
              THEN IF RLess(R(0), sin)
                   THEN EmitNeighbour(s1, g, gi, gj - 1, RNeg(sin), oob)
                   ELSE EmitNeighbour(s1, g, gi, gj + 1, sin, oob)
              ELSE s1
    IN  IF AboveTolerance(cos)
        THEN IF RLess(R(0), cos)
             THEN EmitNeighbour(s2, g, gi - 1, gj, RNeg(cos), oob)
             ELSE EmitNeighbour(s2, g, gi + 1, gj, cos, oob)
        ELSE s2

\* assemble_Matrix_Neumann: the row loop from active index i on; the first
\* interior row met (flag = 1) is a single diagonal entry of 1.
RECURSIVE NeumannRows(_, _, _, _, _)
NeumannRows(st, g, i, get_normal, oob) ==
    IF st.fault \/ i >= g.n_active THEN st
    ELSE LET code == g.region[<<At(g.id_i, i), At(g.id_j, i)>>]
             s1 == IF code = 1
                   THEN IF st.flag # 0
                        THEN [Emit(st, i, R(1)) EXCEPT !.flag = 0]
                        ELSE FivePoint(st, g, i, R(4), R(-1), R(-1), oob)
                   ELSE NeumannBoundary(st, g, i, get_normal[code], oob)
         IN  NeumannRows(CloseRow(s1, i), g, i + 1, get_normal, oob)

assemble_Matrix_Neumann(g, get_normal, oob) ==
    Finish(NeumannRows(AsmStart(g.n_active, 5 * g.n_active),
                       g, 0, get_normal, oob))

mu_x(g, tau) == RDiv(RDiv(tau, g.hx), g.hx)
mu_y(g, tau) == RDiv(RDiv(tau, g.hy), g.hy)

\* assemble_Matrix_Parabolic_Explicit: the row loop from active index i on.
RECURSIVE ExplicitRows(_, _, _, _, _)
ExplicitRows(st, g, i, tau, oob) ==
    IF st.fault \/ i >= g.n_active THEN st
    ELSE LET s1 == IF IsInterior(g, i)
                   THEN FivePoint(st, g, i,
                            RSub(R(1), RMul(R(2), RAdd(mu_x(g, tau),
                                                       mu_y(g, tau)))),
                            mu_x(g, tau), mu_y(g, tau), oob)
                   ELSE Emit(st, i, R(0))
         IN  ExplicitRows(CloseRow(s1, i), g, i + 1, tau, oob)

assemble_Matrix_Parabolic_Explicit(g, tau, oob) ==
    Finish(ExplicitRows(AsmStart(g.n_active, 5 * g.n_active),
                        g, 0, tau, oob))

\* One of the four row loops of assemble_Matrix_Parabolic_ADI, from active
\* index i on: an operator in direction dir ("x" or "y") with the given
\* centre and neighbour weights and the given boundary diagonal.
RECURSIVE AdiRows(_, _, _, _, _, _, _, _)
AdiRows(st, g, i, dir, centre, w, boundary, oob) ==
    IF st.fault \/ i >= g.n_active THEN st
    ELSE LET s1 == IF IsInterior(g, i)
                   THEN IF dir = "x"
                        THEN ThreePointX(st, g, i, centre, w, oob)
                        ELSE ThreePointY(st, g, i, centre, w, oob)
                   ELSE Emit(st, i, boundary)
         IN  AdiRows(CloseRow(s1, i), g, i + 1, dir, centre, w,
                     boundary, oob)

\* A mutant of AdiOperator: every boundary row is an identity row.
AdiOperatorIdentityBoundary(g, dir, centre, w, boundary, oob) ==
    Finish(AdiRows(AsmStart(g.n_active, 3 * g.n_active),
                   g, 0, dir, centre, w, R(1), oob))

AdiOperator(g, dir, centre, w, boundary, oob) ==
    Finish(AdiRows(AsmStart(g.n_active, 3 * g.n_active),
                   g, 0, dir, centre, w, boundary, oob))

Half(a) == RDiv(a, R(2))

\* A mutant of assemble_Matrix_Parabolic_ADI: the two operators in x come
\* before the two in y.
assemble_Matrix_Parabolic_ADIxFirst(g, tau, oob) ==
    LET mx == mu_x(g, tau)
        my == mu_y(g, tau)
    IN  <<AdiOperator(g, "x", RSub(R(1), mx), Half(mx), R(0), oob),
          AdiOperator(g, "x", RAdd(R(1), mx), Half(RNeg(mx)), R(1), oob),
          AdiOperator(g, "y", RSub(R(1), my), Half(my), R(0), oob),
          AdiOperator(g, "y", RAdd(R(1), my), Half(RNeg(my)), R(1), oob)>>

\* assemble_Matrix_Parabolic_ADI: plus_delta_y, minus_delta_x,
\* plus_delta_x, minus_delta_y, in this order.
assemble_Matrix_Parabolic_ADI(g, tau, oob) ==
    LET mx == mu_x(g, tau)
        my == mu_y(g, tau)
    IN  <<AdiOperator(g, "y", RSub(R(1), my), Half(my), R(0), oob),
          AdiOperator(g, "x", RAdd(R(1), mx), Half(RNeg(mx)), R(1), oob),
          AdiOperator(g, "x", RSub(R(1), mx), Half(mx), R(0), oob),
          AdiOperator(g, "y", RAdd(R(1), my), Half(RNeg(my)), R(1), oob)>>

(***************************************************************************)
(* assemble_RHS_Neumann (src/src/pde/poisson2d.c).  The callbacks f,       *)
(* compute_boundary_value and get_exact are given by cb, a record of the   *)
(* value each returns.                                                     *)
(***************************************************************************)
\* A mutant of RhsNeumannEntry: the first interior entry is a source term
\* like the others.
RhsNeumannEntryNoPin(g, i, flag, cb) ==
    IF IsInterior(g, i) THEN RMul(RMul(cb.f, g.hx), g.hx)
    ELSE RMul(cb.boundary, g.hx)

\* b[i] as the loop body of assemble_RHS_Neumann sets it, h being grid->hx.
RhsNeumannEntry(g, i, flag, cb) ==
    IF IsInterior(g, i)
    THEN IF flag # 0 THEN cb.get_exact
         ELSE RMul(RMul(cb.f, g.hx), g.hx)
    ELSE RMul(cb.boundary, g.hx)

\* The loop of assemble_RHS_Neumann from active index i on.
RECURSIVE RhsNeumannLoop(_, _, _, _, _)
RhsNeumannLoop(g, i, flag, cb, b) ==
    IF i >= g.n_active THEN b
    ELSE RhsNeumannLoop(g, i + 1,
                        IF IsInterior(g, i) THEN 0 ELSE flag, cb,
                        Append(b, RhsNeumannEntry(g, i, flag, cb)))

assemble_RHS_Neumann(g, cb) == RhsNeumannLoop(g, 0, 1, cb, << >>)

\* A mutant of RhsDirichletEntry: the source term is scaled by hx * hy.
RhsDirichletEntryCellArea(g, i, cb) ==
    IF IsInterior(g, i) THEN RMul(RMul(cb.f, g.hx), g.hy)
    ELSE cb.boundary

\* b[i] as the loop body of assemble_RHS_Dirichlet sets it, h being
\* grid->hx.
RhsDirichletEntry(g, i, cb) ==
    IF IsInterior(g, i) THEN RMul(RMul(cb.f, g.hx), g.hx)
    ELSE cb.boundary

\* assemble_RHS_Dirichlet (src/src/pde/poisson2d.c).
assemble_RHS_Dirichlet(g, cb) ==
    [k \in 1 .. g.n_active |-> RhsDirichletEntry(g, k - 1, cb)]

(***************************************************************************)
(* Inputs of the assemblers, and their calls.                              *)
(***************************************************************************)
AsmDims == {d \in (0 .. MaxSide) \X (0 .. MaxSide) : d[1] * d[2] <= MaxAsmCells}
\* 0: inactive, 1: interior, 2: a boundary segment.
AsmCodes == {0, 1, 2}

\* What a read outside id_map does: a fault, or one of these ints.
OobValues == {-1, 0}
OobOutcomes ==
    {[fault |-> TRUE, value |-> 0]}
    \cup {[fault |-> FALSE, value |-> v] : v \in OobValues}

\* get_normal, given by the sine and cosine of the angle it returns for a
\* boundary code: the four axis directions and one direction per quadrant.
Normals ==
    {[sin |-> R(0), cos |-> R(1)], [sin |-> R(0), cos |-> R(-1)],
     [sin |-> R(1), cos |-> R(0)], [sin |-> R(-1), cos |-> R(0)]}
    \cup {[sin |-> <<3 * a, 5>>, cos |-> <<4 * b, 5>>] : a, b \in {-1, 1}}
NormalFuncs == [{c \in AsmCodes : c >= 2} -> Normals]

\* The time step handed to the parabolic assemblers.
Taus == {<<1, 2>>, R(0)}

\* What the caller holds after an assembler call: the arguments it passed
\* (with what the reads outside id_map did), and the matrices returned, or
\* nothing when the process faulted.
Returned(op, args, results) ==
    IF \E k \in 1 .. Len(results) : results[k].fault
    THEN [op |-> op, args |-> args, fault |-> TRUE, out |-> << >>,
          overrun |-> \E k \in 1 .. Len(results) : results[k].overrun]
    ELSE [op |-> op, args |-> args, fault |-> FALSE, out |-> results,
          overrun |-> \E k \in 1 .. Len(results) : results[k].overrun]

AssembleDirichlet ==
    /\ pc = "grid"
    /\ \E oob \in OobOutcomes :
          call' = Returned("assemble_Matrix_Dirichlet", [oob |-> oob],
                           <<assemble_Matrix_Dirichlet(grid, oob)>>)
    /\ pc' = "assembled"
    /\ UNCHANGED <<divider, grid, mat>>

AssembleNeumann ==
    /\ pc = "grid"
    /\ \E oob \in OobOutcomes, get_normal \in NormalFuncs :
          call' = Returned("assemble_Matrix_Neumann",
                           [oob |-> oob, get_normal |-> get_normal],
                           <<assemble_Matrix_Neumann(grid, get_normal, oob)>>)
    /\ pc' = "assembled"
    /\ UNCHANGED <<divider, grid, mat>>

AssembleExplicit ==
    /\ pc = "grid"
    /\ \E oob \in OobOutcomes, tau \in Taus :
          call' = Returned("assemble_Matrix_Parabolic_Explicit",
                           [oob |-> oob, tau |-> tau],
                           <<assemble_Matrix_Parabolic_Explicit(grid, tau, oob)>>)
    /\ pc' = "assembled"
    /\ UNCHANGED <<divider, grid, mat>>

AssembleADI ==
    /\ pc = "grid"
    /\ \E oob \in OobOutcomes, tau \in Taus :
          call' = Returned("assemble_Matrix_Parabolic_ADI",
                           [oob |-> oob, tau |-> tau],
                           assemble_Matrix_Parabolic_ADI(grid, tau, oob))
    /\ pc' = "assembled"
    /\ UNCHANGED <<divider, grid, mat>>

\* The values the callbacks handed to assemble_RHS_Neumann return.
RhsCallbacks ==
    {[f |-> R(1), boundary |-> R(2), get_exact |-> R(3)],
     [f |-> R(2), boundary |-> R(1), get_exact |-> R(0)]}

\* A call assemble_RHS_Neumann(grid, f, compute_boundary_value, get_exact).
AssembleRhsNeumann ==
    /\ pc = "grid"
    /\ \E cb \in RhsCallbacks :
          call' = [op |-> "assemble_RHS_Neumann", args |-> [cb |-> cb],
                   fault |-> FALSE, out |-> << >>, overrun |-> FALSE,
                   b |-> assemble_RHS_Neumann(grid, cb)]
    /\ pc' = "assembled"
    /\ UNCHANGED <<divider, grid, mat>>

\* A call assemble_RHS_Dirichlet(grid, f, compute_boundary_value).
AssembleRhsDirichlet ==
    /\ pc = "grid"
    /\ \E cb \in RhsCallbacks :
          call' = [op |-> "assemble_RHS_Dirichlet", args |-> [cb |-> cb],
                   fault |-> FALSE, out |-> << >>, overrun |-> FALSE,
                   b |-> assemble_RHS_Dirichlet(grid, cb)]
    /\ pc' = "assembled"
    /\ UNCHANGED <<divider, grid, mat>>

NextAsm ==
    \/ InitializeGrid({d \in AsmDims : d[1] * d[2] <= MaxMixedCells}, AsmCodes)
    \/ InitializeGrid(AsmDims, AsmCodes \ {0})
    \/ AssembleDirichlet
    \/ AssembleNeumann
    \/ AssembleExplicit
    \/ AssembleADI
    \/ AssembleRhsNeumann
    \/ AssembleRhsDirichlet

SpecAsm == InitGrid /\ [][NextAsm]_vars

(***************************************************************************)
(* The row loops with their rows taken in any order: the body of a loop is *)
(* run for one row at a time, from the state (idx, flag, the arrays) that  *)
(* the rows run before it have left.  The rows of spmv_csr advance one     *)
(* statement at a time, interleaved.                                       *)
(***************************************************************************)
RowDims ==
    {d \in (1 .. MaxRowCells) \X (1 .. MaxRowCells) :
        d[1] * d[2] <= MaxRowCells}

\* The row loops of an assembler: one, or the four of
\* assemble_Matrix_Parabolic_ADI in the order of the code, each with the
\* direction, the centre and neighbour weights and the boundary diagonal.
RowLoops(op, g, tau) ==
    IF op = "assemble_Matrix_Parabolic_ADI"
    THEN <<[dir |-> "y", centre |-> RSub(R(1), mu_y(g, tau)),
            w |-> Half(mu_y(g, tau)), boundary |-> R(0)],
           [dir |-> "x", centre |-> RAdd(R(1), mu_x(g, tau)),
            w |-> Half(RNeg(mu_x(g, tau))), boundary |-> R(1)],
           [dir |-> "x", centre |-> RSub(R(1), mu_x(g, tau)),
            w |-> Half(mu_x(g, tau)), boundary |-> R(0)],
           [dir |-> "y", centre |-> RAdd(R(1), mu_y(g, tau)),
            w |-> Half(RNeg(mu_y(g, tau))), boundary |-> R(1)]>>
    ELSE <<[dir |-> "xy"]>>

\* createSparseCSR and idx = 0 (flag = 1), row_ptr[0] = 0 of each loop.
LoopStart(op, g) ==
    IF op = "assemble_Matrix_Parabolic_ADI"
    THEN [k \in 1 .. 4 |-> AsmStart(g.n_active, 3 * g.n_active)]
    ELSE <<AsmStart(g.n_active, 5 * g.n_active)>>

\* The body of a row loop for the one row i: the loop of the code entered
\* at i and left at i + 1.
RowOfLoop(op, loop, st, g, i, args) ==
    IF op = "assemble_Matrix_Dirichlet"
    THEN DirichletRows(st, [g EXCEPT !.n_active = i + 1], i, args.oob)
    ELSE IF op = "assemble_Matrix_Neumann"
    THEN NeumannRows(st, [g EXCEPT !.n_active = i + 1], i,
                     args.get_normal, args.oob)
    ELSE IF op = "assemble_Matrix_Parabolic_Explicit"
    THEN ExplicitRows(st, [g EXCEPT !.n_active = i + 1], i,
                      args.tau, args.oob)
    ELSE AdiRows(st, [g EXCEPT !.n_active = i + 1], i, loop.dir,
                 loop.centre, loop.w, loop.boundary, args.oob)

\* The calls of the assemblers; tau and get_normal count for the
\* assemblers that take them.
RowLoopCalls ==
    {[op |-> "assemble_Matrix_Dirichlet", tau |-> R(0),
      get_normal |-> << >>]}
    \cup {[op |-> "assemble_Matrix_Neumann", tau |-> R(0),
           get_normal |-> n] : n \in NormalFuncs}
    \cup {[op |-> o, tau |-> t, get_normal |-> << >>] :
            o \in {"assemble_Matrix_Parabolic_Explicit",
                   "assemble_Matrix_Parabolic_ADI"}, t \in Taus}

\* An assembler is entered: what precedes its row loops.
BeginRowLoops ==
    /\ pc = "grid"
    /\ \E c \in RowLoopCalls, oob \in OobOutcomes :
          call' = [op |-> c.op,
                   args |-> [oob |-> oob, tau |-> c.tau,
                             get_normal |-> c.get_normal],
                   order |-> << >>,
                   st |-> LoopStart(c.op, grid),
                   out |-> << >>]
    /\ pc' = "rows"
    /\ UNCHANGED <<divider, grid, mat>>

\* A row that has not been run yet is run, in each loop of the assembler.
RunRow ==
    /\ pc = "rows"
    /\ \E i \in 0 .. grid.n_active - 1 :
          /\ \A k \in 1 .. Len(call.order) : call.order[k] # i
          /\ \E loops \in {RowLoops(call.op, grid, call.args.tau)} :
                call' = [call EXCEPT
                           !.order = Append(@, i),
                           !.st = AsSequence(
                               [k \in 1 .. Len(call.st) |->
                                   RowOfLoop(call.op, loops[k], call.st[k],
                                             grid, i, call.args)])]
    /\ UNCHANGED <<pc, divider, grid, mat>>

\* Every row has been run: matrix->nnz = idx; return matrix.
ReturnMatrices ==
    /\ pc = "rows"
    /\ Len(call.order) = grid.n_active
    /\ call' = [call EXCEPT
                  !.out = AsSequence([k \in 1 .. Len(call.st) |->
                                         Finish(call.st[k])])]
    /\ pc' = "returned"
    /\ UNCHANGED <<divider, grid, mat>>

\* spmv_csr(mat, x, y) is entered; no row has started (j < 0).
SpmvBegin ==
    /\ pc = "matrix"
    /\ \E x \in Vectors(mat.rows) :
          call' = [op |-> "spmv_csr", x |-> x,
                   y |-> [k \in 1 .. mat.rows |-> UnwrittenValue],
                   j |-> [k \in 1 .. mat.rows |-> -1]]
    /\ pc' = "spmv rows"
    /\ UNCHANGED <<divider, grid, mat>>

\* A mutant of SpmvRowStep: every row accumulates into y[0].
SpmvRowStepOneSum ==
    /\ pc = "spmv rows"
    /\ \E i \in 0 .. mat.rows - 1 :
          IF At(call.j, i) < 0
          THEN call' = [call EXCEPT !.y[1] = R(0),
                                    !.j[i + 1] = At(mat.row_ptr, i)]
          ELSE /\ At(call.j, i) < At(mat.row_ptr, i + 1)
               /\ call' = [call EXCEPT
                     !.y[1] = RAdd(@, RMul(At(mat.values, At(call.j, i)),
                                 At(call.x,
                                    At(mat.col_ind, At(call.j, i))))),
                     !.j[i + 1] = @ + 1]
    /\ UNCHANGED <<pc, divider, grid, mat>>

\* One statement of row i of spmv_csr: y[i] = 0.0 with j = row_ptr[i], or
\* y[i] += values[j] * x[col_ind[j]] with j++ while j < row_ptr[i + 1].
SpmvRowStep ==
    /\ pc = "spmv rows"
    /\ \E i \in 0 .. mat.rows - 1 :
          IF At(call.j, i) < 0
          THEN call' = [call EXCEPT !.y[i + 1] = R(0),
                                    !.j[i + 1] = At(mat.row_ptr, i)]
          ELSE /\ At(call.j, i) < At(mat.row_ptr, i + 1)
               /\ call' = [call EXCEPT
                     !.y[i + 1] = RAdd(@, RMul(At(mat.values, At(call.j, i)),
                                     At(call.x,
                                        At(mat.col_ind, At(call.j, i))))),
                     !.j[i + 1] = @ + 1]
    /\ UNCHANGED <<pc, divider, grid, mat>>

InitRows == InitGrid \/ InitCsr

NextRows ==
    \/ InitializeGrid(RowDims, AsmCodes)
    \/ BeginRowLoops
    \/ RunRow
    \/ ReturnMatrices
    \/ SpmvBegin
    \/ SpmvRowStep

SpecRows == InitRows /\ [][NextRows]_vars

(***************************************************************************)
(* Claims about the assemblers (checked under SpecAsm).                    *)
(***************************************************************************)
\* The positions of col_ind that hold a written entry.
WrittenPositions(m) ==
    {k \in 0 .. Len(m.col_ind) - 1 : At(m.col_ind, k) # UnwrittenInt}

\* rows = cols = n, row_ptr[0] = 0, row_ptr non-decreasing and
\* row_ptr[rows] = nnz.
WellFormedCSR(m, n) ==
    /\ m.rows = n
    /\ m.cols = n
    /\ Len(m.row_ptr) = n + 1
    /\ At(m.row_ptr, 0) = 0
    /\ \A i \in 0 .. n - 1 : At(m.row_ptr, i) <= At(m.row_ptr, i + 1)
    /\ At(m.row_ptr, n) = m.nnz

\* The capacity each assembler declares to createSparseCSR, per row.
DeclaredPerRow(op) ==
    IF op = "assemble_Matrix_Parabolic_ADI" THEN 3 ELSE 5

\* C7: every matrix an assembler returns (Dirichlet, Neumann, explicit
\* parabolic, each of the four ADI operators) is a well-formed CSR triple:
\* rows = cols = n_active, row_ptr[0] = 0, row_ptr non-decreasing,
\* row_ptr[rows] = nnz, and nnz is no longer the declared capacity but the
\* number of entries actually written, which fill positions 0 .. nnz - 1.
C7_AssembledWellFormed ==
    (pc = "assembled" /\ ~call.fault) =>
        \A k \in 1 .. Len(call.out) :
            LET r == call.out[k]
            IN  /\ WellFormedCSR(r.matrix, grid.n_active)
                /\ r.matrix.nnz = r.idx
                /\ WrittenPositions(r.matrix) = 0 .. r.matrix.nnz - 1

C7_Witness ==
    /\ pc = "assembled"
    /\ ~call.fault
    /\ call.op = "assemble_Matrix_Parabolic_ADI"
    /\ Len(call.out) = 4
    /\ grid.n_active = 9
    /\ \A k \in 1 .. 4 :
          /\ call.out[k].matrix.nnz = 11
          /\ call.out[k].capacity = 27
          /\ WellFormedCSR(call.out[k].matrix, 9)

\* C8: in every matrix the assemblers emit, for any grid built by
\* initialize_Grid, each row i holds exactly one entry with col_ind = i.
C8_OneDiagonalPerRow ==
    (pc = "assembled" /\ ~call.fault) =>
        \A k \in 1 .. Len(call.out) :
            \A i \in 0 .. grid.n_active - 1 :
                DiagonalEntries(call.out[k].matrix, i) = 1

\* C9: no assembler writes col_ind / values at a position at or past the
\* capacity it declared: the running index stays <= 5 * n_active in the
\* Dirichlet, Neumann and explicit parabolic assemblers and <= 3 * n_active
\* in each of the four ADI assemblies, for every grid.
C9_IndexWithinCapacity ==
    pc = "assembled" =>
        /\ ~call.overrun
        /\ \A k \in 1 .. Len(call.out) :
              /\ call.out[k].capacity = DeclaredPerRow(call.op) * grid.n_active
              /\ call.out[k].idx <= call.out[k].capacity

C9_Witness ==
    /\ pc = "assembled"
    /\ ~call.fault
    /\ ~call.overrun
    /\ call.op = "assemble_Matrix_Neumann"
    /\ grid.n_active = 9
    /\ \E i \in 0 .. 8 :
          At(call.out[1].matrix.row_ptr, i + 1)
             - At(call.out[1].matrix.row_ptr, i) = 5
    /\ \E i \in 0 .. 8 :
          At(call.out[1].matrix.row_ptr, i + 1)
             - At(call.out[1].matrix.row_ptr, i) = 3
    /\ call.out[1].idx > 3 * grid.n_active
    /\ call.out[1].idx <= call.out[1].capacity

(***************************************************************************)
(* GaussSeidel_csr and CG_csr (src/src/sparse/csr.c), vec_dot              *)
(* (src/src/vec.c).                                                        *)
(***************************************************************************)
\* A mutant of GaussSeidelSource: a row reads the x of the sweep's start.
GaussSeidelSourceSweepStart(st) == st.x_start

\* The vector a Gauss-Seidel row reads in x[matrix->col_ind[j]]: x as it
\* stands.  st is [x, x_start, norm], x_start being x at the sweep's start.
GaussSeidelSource(st) == st.x

\* The row loop of a Gauss-Seidel sweep from the k-th visited row on:
\* x_old = x[i]; x[i] = (b[i] - sum) / diag; norm += (x[i] - x_old)^2.
\* A mutant of GaussSeidelStore: x[i] moves half of the way to the new value.
GaussSeidelStoreDamped(st, i, v) ==
    [st EXCEPT !.x[i + 1] = RDiv(RAdd(At(st.x, i), v), R(2)),
               !.norm = RAdd(@, Square(RSub(v, At(st.x, i))))]

GaussSeidelStore(st, i, v) ==
    [st EXCEPT !.x[i + 1] = v,
               !.norm = RAdd(@, Square(RSub(v, At(st.x, i))))]

RECURSIVE GaussSeidelRows(_, _, _, _, _)
GaussSeidelRows(matrix, b, st, order, k) ==
    IF k > Len(order) THEN st
    ELSE GaussSeidelRows(matrix, b,
             GaussSeidelStore(st, order[k],
                              RowUpdate(matrix, b, GaussSeidelSource(st),
                                        order[k])),
             order, k + 1)

\* One sweep of GaussSeidel_csr, visiting the rows in the given order.
GaussSeidelSweep(matrix, b, x, order) ==
    GaussSeidelRows(matrix, b, [x |-> x, x_start |-> x, norm |-> R(0)],
                    order, 1)

\* The iteration loop of GaussSeidel_csr from iteration iter on; trace
\* collects x as it stands before the first sweep and after every sweep.
RECURSIVE GaussSeidelLoop(_, _, _, _, _, _, _)
\* The rest of an iteration of GaussSeidel_csr after its sweep, which left
\* st.
GaussSeidelTest(matrix, b, st, iter, max_iter, tol, trace) ==
    IF SqrtLess(st.norm, tol)
    THEN [x |-> st.x, iters |-> iter + 1, trace |-> Append(trace, st.x)]
    ELSE GaussSeidelLoop(matrix, b, st.x, iter + 1, max_iter, tol,
                         Append(trace, st.x))

GaussSeidelLoop(matrix, b, x, iter, max_iter, tol, trace) ==
    IF iter >= max_iter THEN [x |-> x, iters |-> iter, trace |-> trace]
    ELSE GaussSeidelTest(matrix, b,
                         GaussSeidelSweep(matrix, b, x, RowOrder(matrix.rows)),
                         iter, max_iter, tol, trace)

GaussSeidel_csr(matrix, b, x, max_iter, tol) ==
    GaussSeidelLoop(matrix, b, x, 0, max_iter, tol, <<x>>)

\* vec_dot(a, b, n) from index i on, added to result.
RECURSIVE vec_dot_from(_, _, _, _, _)
vec_dot_from(a, b, n, i, result) ==
    IF i >= n THEN result
    ELSE vec_dot_from(a, b, n, i + 1, RAdd(result, RMul(At(a, i), At(b, i))))

vec_dot(a, b, n) == vec_dot_from(a, b, n, 0, R(0))

\* a[i] + c * b[i] for every i.
Axpy(a, c, b) == [k \in 1 .. Len(a) |-> RAdd(a[k], RMul(c, b[k]))]

\* a[i] - c * b[i] for every i.
Axmy(a, c, b) == [k \in 1 .. Len(a) |-> RSub(a[k], RMul(c, b[k]))]

\* A mutant of CGAlpha: the step length uses the residual after the update.
CGAlphaNewResidual(rsold, r, p, Ap, n) ==
    LET a0 == RDiv(rsold, vec_dot(p, Ap, n))
        r1 == Axmy(r, a0, Ap)
    IN  RDiv(vec_dot(r1, r1, n), vec_dot(p, Ap, n))

\* alpha = rsold; pAp = vec_dot(p, Ap); alpha /= pAp.
CGAlpha(rsold, r, p, Ap, n) == RDiv(rsold, vec_dot(p, Ap, n))

\* The iteration loop of CG_csr from iteration iter on.  st is
\* [x, r, p, rsold]; trace collects one record per iteration run: the
\* Ap, alpha, x, r, rsnew and p the iteration computed and whether its
\* stop test fired (p is then as the iteration found it).
\* One iteration of the loop of CG_csr from st, in the order of the code:
\* Ap, then alpha, then x and r, then rsnew, then the stop test, then p.
CGStepTested(st, Ap, alpha, r, rsnew, stop) ==
    [Ap |-> Ap, alpha |-> alpha, x |-> Axpy(st.x, alpha, st.p), r |-> r,
     rsnew |-> rsnew, stop |-> stop,
     p |-> IF stop THEN st.p ELSE Axpy(r, RDiv(rsnew, st.rsold), st.p)]

CGStepNorm(st, tol, Ap, alpha, r, rsnew) ==
    CGStepTested(st, Ap, alpha, r, rsnew, SqrtLess(rsnew, tol))

CGStepResidual(st, tol, n, Ap, alpha, r) ==
    CGStepNorm(st, tol, Ap, alpha, r, vec_dot(r, r, n))

CGStepAlpha(st, tol, n, Ap, alpha) ==
    CGStepResidual(st, tol, n, Ap, alpha, Axmy(st.r, alpha, Ap))

CGStepAp(st, tol, n, Ap) ==
    CGStepAlpha(st, tol, n, Ap, CGAlpha(st.rsold, st.r, st.p, Ap, n))

CGStep(matrix, st, tol) ==
    CGStepAp(st, tol, matrix.rows, spmv_csr(matrix, st.p))

RECURSIVE CGLoop(_, _, _, _, _, _)
\* The rest of an iteration of CG_csr after step was computed.
CGTest(matrix, step, iter, max_iter, tol, trace) ==
    IF step.stop
    THEN [x |-> step.x, iters |-> iter + 1, trace |-> Append(trace, step)]
    ELSE CGLoop(matrix,
                [x |-> step.x, r |-> step.r, p |-> step.p,
                 rsold |-> step.rsnew],
                iter + 1, max_iter, tol, Append(trace, step))

CGLoop(matrix, st, iter, max_iter, tol, trace) ==
    IF iter >= max_iter
    THEN [x |-> st.x, iters |-> iter, trace |-> trace]
    ELSE CGTest(matrix, CGStep(matrix, st, tol), iter, max_iter, tol, trace)

\* CG_csr(matrix, b, x, max_iter, tol): the x it leaves, the number of
\* iterations it ran, the r = b - A*x and p = r it starts from, and the
\* record of every iteration.
CGResult(out, r) ==
    [x |-> out.x, iters |-> out.iters, trace |-> out.trace,
     r0 |-> r, p0 |-> r]

CGFrom(matrix, x, max_iter, tol, r) ==
    CGResult(CGLoop(matrix,
                    [x |-> x, r |-> r, p |-> r,
                     rsold |-> vec_dot(r, r, matrix.rows)],
                    0, max_iter, tol, << >>),
             r)

\* r[i] = b[i] - r[i] for every i, r holding A*x.
CGResidual(b, r) == [k \in 1 .. Len(b) |-> RSub(b[k], r[k])]

CG_csr(matrix, b, x, max_iter, tol) ==
    CGFrom(matrix, x, max_iter, tol, CGResidual(b, spmv_csr(matrix, x)))

(***************************************************************************)
(* Calls of the three solvers.                                             *)
(***************************************************************************)
\* The iteration budgets handed to the solvers, a negative one included.
MaxIters == -1 .. MaxIter

\* A call of one of Jacobi_csr, GaussSeidel_csr, CG_csr on (mat, b, x,
\* max_iter, tol).
SolverCall(op, b, x, max_iter, tol, out) ==
    [op |-> op, b |-> b, x_in |-> x, max_iter |-> max_iter, tol |-> tol,
     out |-> out]

SolveJacobi ==
    /\ pc = "matrix"
    /\ \E b \in Vectors(mat.rows), x \in Vectors(mat.rows),
          max_iter \in MaxIters, tol \in Tols :
          call' = SolverCall("Jacobi_csr", b, x, max_iter, tol,
                             Jacobi_csr(mat, b, x, max_iter, tol))
    /\ pc' = "called"
    /\ UNCHANGED <<divider, grid, mat>>

SolveGaussSeidel ==
    /\ pc = "matrix"
    /\ \E b \in Vectors(mat.rows), x \in Vectors(mat.rows),
          max_iter \in MaxIters, tol \in Tols :
          call' = SolverCall("GaussSeidel_csr", b, x, max_iter, tol,
                             GaussSeidel_csr(mat, b, x, max_iter, tol))
    /\ pc' = "called"
    /\ UNCHANGED <<divider, grid, mat>>

\* No row of m stores a column twice.
EachColumnOnce(m) ==
    \A i \in 0 .. m.rows - 1 :
        \A k1, k2 \in At(m.row_ptr, i) .. At(m.row_ptr, i + 1) - 1 :
            At(m.col_ind, k1) = At(m.col_ind, k2) => k1 = k2

\* CG_csr is called on the matrices that store each column of a row once:
\* the exact values of its second iteration then stay within 32 bits.
SolveCG ==
    /\ pc = "matrix"
    /\ EachColumnOnce(mat)
    /\ \E b \in Vectors(mat.rows), x \in Vectors(mat.rows),
          max_iter \in MaxIters, tol \in Tols :
          call' = SolverCall("CG_csr", b, x, max_iter, tol,
                             CG_csr(mat, b, x, max_iter, tol))
    /\ pc' = "called"
    /\ UNCHANGED <<divider, grid, mat>>

NextSolvers ==
    \/ SolveJacobi
    \/ SolveGaussSeidel
    \/ SolveCG

SpecSolvers == InitCsr /\ [][NextSolvers]_vars

(***************************************************************************)
(* Claims about the solvers (checked under SpecSolvers).                   *)
(***************************************************************************)
\* The vector row i of a Gauss-Seidel sweep sees: this sweep's values at
\* the indices before i, the previous sweep's values from i on.
SeenByRow(x_old, x_next, i) ==
    [k \in 1 .. Len(x_old) |-> IF k - 1 < i THEN x_next[k] ELSE x_old[k]]

AtMostOneDiagonal(m) ==
    \A i \in 0 .. m.rows - 1 : DiagonalEntries(m, i) <= 1

\* C11: a GaussSeidel_csr sweep visits the rows in increasing index order
\* and updates x in place: on a matrix that stores at most one diagonal
\* entry per row, the new x[i] is (b[i] - sum over j # i of A[i,j] * s[j])
\* / A[i,i], where s[j] is the value this sweep already computed for
\* j < i and the previous sweep's value for j > i.
C11_GaussSeidelInPlace ==
    (pc = "called" /\ call.op = "GaussSeidel_csr" /\ AtMostOneDiagonal(mat)) =>
        \A k \in 1 .. Len(call.out.trace) - 1 :
            LET x_old == call.out.trace[k]
                x_next == call.out.trace[k + 1]
            IN  \A i \in 0 .. mat.rows - 1 :
                    At(x_next, i) =
                        SynchronousRow(mat, call.b,
                                       SeenByRow(x_old, x_next, i), i)

\* A sweep in which row 1 read the value row 0 had just computed, and a
\* synchronous update would have given another x[1].
C11_Witness ==
    /\ pc = "called"
    /\ call.op = "GaussSeidel_csr"
    /\ mat.rows = 2
    /\ mat.nnz = 4
    /\ \A i \in 0 .. 1 : DiagonalEntries(mat, i) = 1
    /\ call.out.iters = 2
    /\ LET x_old == call.out.trace[2]
           x_next == call.out.trace[3]
       IN  /\ At(x_next, 0) # At(x_old, 0)
           /\ At(x_next, 1) = SynchronousRow(mat, call.b,
                                             SeenByRow(x_old, x_next, 1), 1)
           /\ At(x_next, 1) # SynchronousRow(mat, call.b, x_old, 1)
           /\ IsFinite(At(x_next, 1))

\* Row i of A times v, summed over the columns j, j+1, ... row i stores.
RECURSIVE DenseRowTimes(_, _, _, _)
DenseRowTimes(m, v, i, j) ==
    IF j >= m.cols THEN R(0)
    ELSE RAdd(IF StoresColumn(m, i, j)
              THEN RMul(DenseEntry(m, i, j, At(m.row_ptr, i)), At(v, j))
              ELSE R(0),
              DenseRowTimes(m, v, i, j + 1))

\* A * v.
MatVec(m, v) == [k \in 1 .. m.rows |-> DenseRowTimes(m, v, k - 1, 0)]

\* a + c * b and a - c * b, entrywise.
PlusScaled(a, c, b) == [k \in 1 .. Len(a) |-> RAdd(a[k], RMul(c, b[k]))]
MinusScaled(a, c, b) == [k \in 1 .. Len(a) |-> RSub(a[k], RMul(c, b[k]))]
Dot(a, b) == vec_dot(a, b, Len(a))

\* The x, r and p an iteration of CG starts from: those of the call's
\* start for the first, those the previous iteration left otherwise.
CGBefore(k) ==
    IF k = 1 THEN [x |-> call.x_in, r |-> call.out.r0, p |-> call.out.p0]
    ELSE [x |-> call.out.trace[k - 1].x, r |-> call.out.trace[k - 1].r,
          p |-> call.out.trace[k - 1].p]

\* C12: CG_csr runs the unpreconditioned conjugate-gradient recurrence in
\* this order: r = b - A*x and p = r once; per iteration Ap = A*p,
\* alpha = (r.r)/(p.Ap) with the residual before the update, x += alpha*p,
\* r -= alpha*Ap, stop if the norm of the new r is below tol, otherwise
\* beta = (r_new.r_new)/(r_old.r_old) and p = r + beta*p; x is already
\* updated when the stop test fires.
C12_ConjugateGradientRecurrence ==
    (pc = "called" /\ call.op = "CG_csr") =>
        LET out == call.out
            n == Len(out.trace)
        IN  /\ out.r0 = MinusScaled(call.b, R(1), MatVec(mat, call.x_in))
            /\ out.p0 = out.r0
            /\ out.iters = n
            /\ out.x = IF n = 0 THEN call.x_in ELSE out.trace[n].x
            /\ \A k \in 1 .. n :
                  LET before == CGBefore(k)
                      step == out.trace[k]
                      Ap == MatVec(mat, before.p)
                      alpha == RDiv(Dot(before.r, before.r), Dot(before.p, Ap))
                      r_new == MinusScaled(before.r, alpha, Ap)
                      beta == RDiv(Dot(r_new, r_new), Dot(before.r, before.r))
                  IN  /\ step.Ap = Ap
                      /\ step.alpha = alpha
                      /\ step.x = PlusScaled(before.x, alpha, before.p)
                      /\ step.r = r_new
                      /\ step.stop = SqrtLess(Dot(r_new, r_new), call.tol)
                      /\ step.stop => k = n
                      /\ ~step.stop => step.p = PlusScaled(r_new, beta, before.p)

\* A call that ran two iterations on finite values: the second used the p
\* the first computed with beta, and its stop test fired after x changed.
C12_Witness ==
    /\ pc = "called"
    /\ call.op = "CG_csr"
    /\ mat.rows = 2
    /\ Len(call.out.trace) = 2
    /\ ~call.out.trace[1].stop
    /\ call.out.trace[2].stop
    /\ call.out.trace[1].p # call.out.p0
    /\ call.out.trace[1].p # call.out.trace[1].r
    /\ call.out.x # call.out.trace[1].x
    /\ \A i \in 0 .. 1 : IsFinite(At(call.out.x, i))
    /\ call.out.trace[2].alpha =
          RDiv(Dot(call.out.trace[1].r, call.out.trace[1].r),
               Dot(call.out.trace[1].p, call.out.trace[2].Ap))

\* sum over i of (a[i] - b[i])^2.
SquaredDistance(a, b) ==
    LET d == [k \in 1 .. Len(a) |-> RSub(a[k], b[k])]
    IN  Dot(d, d)

\* The square of the convergence metric at the end of iteration k of the
\* call: |x_new - x_old|^2 for Jacobi and Gauss-Seidel, r.r for CG.
MetricSquared(k) ==
    IF call.op = "CG_csr"
    THEN Dot(call.out.trace[k].r, call.out.trace[k].r)
    ELSE SquaredDistance(call.out.trace[k + 1], call.out.trace[k])

\* The metric, a square root of sumsq, is strictly below tol.
StrictlyBelow(sumsq, tol) ==
    /\ RLess(R(0), tol)
    /\ RLess(sumsq, RMul(tol, tol))

C13_AfterCall ==
    pc = "called" =>
        LET iters == call.out.iters
        IN  /\ iters >= 0
            /\ iters <= (IF call.max_iter > 0 THEN call.max_iter ELSE 0)
            /\ call.max_iter > 0 => iters >= 1
            /\ \A k \in 1 .. iters - 1 :
                  ~StrictlyBelow(MetricSquared(k), call.tol)
            /\ iters < call.max_iter =>
                  StrictlyBelow(MetricSquared(iters), call.tol)
            /\ call.max_iter <= 0 => call.out.x = call.x_in

\* C13: Jacobi_csr, GaussSeidel_csr and CG_csr always return: each runs at
\* most max_iter iterations, stops earlier exactly when its convergence
\* metric is strictly below tol at the end of an iteration, and with
\* max_iter <= 0 returns x unchanged; the matrix is never modified (b is
\* only read: the call keeps it as passed).
C13_SolversTerminate ==
    /\ []C13_AfterCall
    /\ [][mat' = mat]_vars

\* A call that stopped before its budget, in an iteration after the first,
\* the metric of the first iteration being exactly tol.
C13_Witness ==
    /\ pc = "called"
    /\ call.max_iter = 2
    /\ call.out.iters = 2
    /\ MetricSquared(1) = RMul(call.tol, call.tol)
    /\ StrictlyBelow(MetricSquared(2), call.tol)

(***************************************************************************)
(* Claims about the rows the assemblers emit (checked under SpecAsm).      *)
(***************************************************************************)
\* Row i of m as the sequence of its <<col_ind, value>> pairs.
RowEntries(m, i) ==
    [k \in 1 .. At(m.row_ptr, i + 1) - At(m.row_ptr, i) |->
        <<At(m.col_ind, At(m.row_ptr, i) + k - 1),
          At(m.values, At(m.row_ptr, i) + k - 1)>>]

\* What the read id_map[gi][gj] gave in the call: the map's entry inside
\* the grid, the int the read returned outside it.
IdMapRead(gi, gj) ==
    IF <<gi, gj>> \in Cells(grid.nx, grid.ny) THEN grid.id_map[<<gi, gj>>]
    ELSE call.args.oob.value

RegionOf(i) == grid.region[<<At(grid.id_i, i), At(grid.id_j, i)>>]

\* centre, then (gi-1,gj) and (gi+1,gj) with weight wx, then (gi,gj-1)
\* and (gi,gj+1) with weight wy.
FivePointRow(i, centre, wx, wy) ==
    LET gi == At(grid.id_i, i)
        gj == At(grid.id_j, i)
    IN  <<<<i, centre>>, <<IdMapRead(gi - 1, gj), wx>>,
          <<IdMapRead(gi + 1, gj), wx>>, <<IdMapRead(gi, gj - 1), wy>>,
          <<IdMapRead(gi, gj + 1), wy>>>>

\* C16: assemble_Matrix_Dirichlet emits, for each active index k in
\* increasing order, row k: for region code 1 exactly five entries, the
\* diagonal k with value 4 and the columns id_map[gi-1][gj],
\* id_map[gi+1][gj], id_map[gi][gj-1], id_map[gi][gj+1] each with value -1;
\* for a code >= 2 exactly one entry, the diagonal with value 1.
C16_DirichletRows ==
    (pc = "assembled" /\ call.op = "assemble_Matrix_Dirichlet"
        /\ ~call.fault) =>
        \A i \in 0 .. grid.n_active - 1 :
            RowEntries(call.out[1].matrix, i) =
                IF RegionOf(i) = 1
                THEN FivePointRow(i, R(4), R(-1), R(-1))
                ELSE <<<<i, R(1)>>>>

\* A 3 x 3 grid whose centre is interior and whose other points are
\* boundary points: row 4 is the stencil, the other rows are identity rows.
C16_Witness ==
    /\ pc = "assembled"
    /\ call.op = "assemble_Matrix_Dirichlet"
    /\ ~call.fault
    /\ grid.n_active = 9
    /\ grid.n_interior = 1
    /\ RegionOf(4) = 1
    /\ RowEntries(call.out[1].matrix, 4) =
          <<<<4, R(4)>>, <<1, R(-1)>>, <<7, R(-1)>>, <<3, R(-1)>>,
            <<5, R(-1)>>>>
    /\ RowEntries(call.out[1].matrix, 0) = <<<<0, R(1)>>>>

\* The source term f(x, y) * h * h of a call of assemble_RHS_Neumann.
SourceTerm == RMul(RMul(call.args.cb.f, grid.hx), grid.hx)

\* The active indices whose region code is 1.
InteriorIndices == {i \in 0 .. grid.n_active - 1 : RegionOf(i) = 1}

\* The first index of InteriorIndices in the order of the loops.
IsFirstInterior(i) ==
    i \in InteriorIndices /\ \A k \in InteriorIndices : i <= k

\* C17 as stated: in the Neumann assembler every active point with region
\* code 1 gets the 5-point stencil row (centre 4, the four axis neighbours
\* -1) and the source term as its right-hand-side entry; no interior row is
\* treated differently from the others.
C17_EveryInteriorRowStencil ==
    /\ (pc = "assembled" /\ call.op = "assemble_Matrix_Neumann"
          /\ ~call.fault) =>
          \A i \in InteriorIndices :
              RowEntries(call.out[1].matrix, i) =
                  FivePointRow(i, R(4), R(-1), R(-1))
    /\ (pc = "assembled" /\ call.op = "assemble_RHS_Neumann") =>
          \A i \in InteriorIndices : call.b[i + 1] = SourceTerm

\* C17, amended: in the Neumann assembler every active point with region
\* code 1 except the first one in index order gets the 5-point stencil row
\* and the source term f(x, y) * h * h as its right-hand-side entry; the
\* first one gets a row of one entry, the diagonal with value 1, and the
\* value of get_exact(x, y) as its right-hand-side entry.
C17_InteriorRowsButFirstStencil ==
    /\ (pc = "assembled" /\ call.op = "assemble_Matrix_Neumann"
          /\ ~call.fault) =>
          \A i \in InteriorIndices :
              RowEntries(call.out[1].matrix, i) =
                  IF IsFirstInterior(i) THEN <<<<i, R(1)>>>>
                  ELSE FivePointRow(i, R(4), R(-1), R(-1))
    /\ (pc = "assembled" /\ call.op = "assemble_RHS_Neumann") =>
          /\ Len(call.b) = grid.n_active
          /\ \A i \in InteriorIndices :
                call.b[i + 1] = IF IsFirstInterior(i)
                                THEN call.args.cb.get_exact
                                ELSE SourceTerm

\* A right-hand side of a grid with two interior points at least, whose
\* first interior entry is the exact value and whose second is the source
\* term, the two being different.
C17_Witness ==
    /\ pc = "assembled"
    /\ call.op = "assemble_RHS_Neumann"
    /\ Cardinality(InteriorIndices) >= 2
    /\ SourceTerm # call.args.cb.get_exact
    /\ \E i, k \in InteriorIndices :
          /\ i < k
          /\ call.b[i + 1] = call.args.cb.get_exact
          /\ call.b[k + 1] = SourceTerm

\* The sum of the coefficients of a row.
RECURSIVE SumOfValues(_)
SumOfValues(row) ==
    IF row = << >> THEN R(0)
    ELSE RAdd(row[1][2], SumOfValues(Tail(row)))

\* The y-neighbour entry of boundary row i for a normal whose sine is s,
\* and its x-neighbour entry for a normal whose cosine is c.
YNeighbourEntry(i, s) ==
    <<IdMapRead(At(grid.id_i, i),
                At(grid.id_j, i) + (IF RLess(R(0), s) THEN -1 ELSE 1)),
      RNeg(RAbs(s))>>
XNeighbourEntry(i, c) ==
    <<IdMapRead(At(grid.id_i, i) + (IF RLess(R(0), c) THEN -1 ELSE 1),
                At(grid.id_j, i)),
      RNeg(RAbs(c))>>

MuX == RDiv(call.args.tau, RMul(grid.hx, grid.hx))
MuY == RDiv(call.args.tau, RMul(grid.hy, grid.hy))

\* An interior row of an ADI operator in x: centre, (gi-1, gj), (gi+1, gj);
\* and of one in y: centre, (gi, gj-1), (gi, gj+1).
ThreePointRowX(i, centre, w) ==
    <<<<i, centre>>,
      <<IdMapRead(At(grid.id_i, i) - 1, At(grid.id_j, i)), w>>,
      <<IdMapRead(At(grid.id_i, i) + 1, At(grid.id_j, i)), w>>>>
ThreePointRowY(i, centre, w) ==
    <<<<i, centre>>,
      <<IdMapRead(At(grid.id_i, i), At(grid.id_j, i) - 1), w>>,
      <<IdMapRead(At(grid.id_i, i), At(grid.id_j, i) + 1), w>>>>

\* C19: assemble_Matrix_Parabolic_ADI returns plus_delta_y, minus_delta_x,
\* plus_delta_x, minus_delta_y in this order.  An interior row of
\* plus_delta_y is 1 - mu_y with mu_y / 2 at (gi, gj-1) and (gi, gj+1), of
\* minus_delta_x 1 + mu_x with -mu_x / 2 at (gi-1, gj) and (gi+1, gj), of
\* plus_delta_x 1 - mu_x with mu_x / 2 at (gi-1, gj) and (gi+1, gj), of
\* minus_delta_y 1 + mu_y with -mu_y / 2 at (gi, gj-1) and (gi, gj+1), and
\* nothing else; a boundary row is the single diagonal 0 in the two plus
\* operators and the single diagonal 1 in the two minus operators.
C19_AdiOperators ==
    (pc = "assembled" /\ call.op = "assemble_Matrix_Parabolic_ADI"
        /\ ~call.fault) =>
        /\ Len(call.out) = 4
        /\ \A i \in 0 .. grid.n_active - 1 :
              LET row(k) == RowEntries(call.out[k].matrix, i)
              IN  IF RegionOf(i) = 1
                  THEN /\ row(1) = ThreePointRowY(i, RSub(R(1), MuY),
                                                  RDiv(MuY, R(2)))
                       /\ row(2) = ThreePointRowX(i, RAdd(R(1), MuX),
                                                  RNeg(RDiv(MuX, R(2))))
                       /\ row(3) = ThreePointRowX(i, RSub(R(1), MuX),
                                                  RDiv(MuX, R(2)))
                       /\ row(4) = ThreePointRowY(i, RAdd(R(1), MuY),
                                                  RNeg(RDiv(MuY, R(2))))
                  ELSE /\ row(1) = <<<<i, R(0)>>>>
                       /\ row(2) = <<<<i, R(1)>>>>
                       /\ row(3) = <<<<i, R(0)>>>>
                       /\ row(4) = <<<<i, R(1)>>>>

\* The four operators of a 3 x 3 grid whose centre is interior, with a
\* time step that is not zero: row 4 of the first and fourth has the
\* neighbours 3 and 5 (in y), row 4 of the second and third the neighbours
\* 1 and 7 (in x), and row 0 is a boundary row.
C19_Witness ==
    /\ pc = "assembled"
    /\ call.op = "assemble_Matrix_Parabolic_ADI"
    /\ ~call.fault
    /\ grid.n_active = 9
    /\ RegionOf(4) = 1
    /\ RegionOf(0) >= 2
    /\ MuX \notin {R(0), NaN}
    /\ MuY \notin {R(0), NaN}
    /\ RowEntries(call.out[1].matrix, 4) =
          <<<<4, RSub(R(1), MuY)>>, <<3, RDiv(MuY, R(2))>>,
            <<5, RDiv(MuY, R(2))>>>>
    /\ RowEntries(call.out[2].matrix, 4) =
          <<<<4, RAdd(R(1), MuX)>>, <<1, RNeg(RDiv(MuX, R(2)))>>,
            <<7, RNeg(RDiv(MuX, R(2)))>>>>
    /\ RowEntries(call.out[3].matrix, 0) = <<<<0, R(0)>>>>
    /\ RowEntries(call.out[4].matrix, 0) = <<<<0, R(1)>>>>

\* Every stored column index of m is a column of m, so that spmv_csr reads
\* inside x.
ColumnsInRange(m) ==
    \A k \in 0 .. m.nnz - 1 : At(m.col_ind, k) \in 0 .. m.cols - 1

\* The vectors of length n with entries 0 and 1, at most two of them 1.
TestVectors(n) ==
    {[k \in 1 .. n |-> IF k \in S THEN R(1) ELSE R(0)] :
        S \in {T \in SUBSET (1 .. n) : Cardinality(T) <= 2}}

\* The unsplit operator of the grid and time step of the call.
UnsplitOperator ==
    assemble_Matrix_Parabolic_Explicit(grid, call.args.tau,
                                       call.args.oob).matrix

\* The minus operator m leaves every unit vector unchanged: it is the
\* identity, and m v = w has the one solution v = w.
IsIdentityOperator(m) ==
    \A i \in 1 .. m.rows :
        LET e == [k \in 1 .. m.rows |-> IF k = i THEN R(1) ELSE R(0)]
        IN  spmv_csr(m, e) = e

\* u is left unchanged by the full step: the v with minus_dx v = plus_dy u
\* gives minus_dy u = plus_dx v.  It is stated for identity minus
\* operators, where v is plus_dy u.
FixedByFullStep(ops, u) ==
    LET v == spmv_csr(ops[1].matrix, u)
    IN  /\ spmv_csr(ops[2].matrix, v) = spmv_csr(ops[1].matrix, u)
        /\ spmv_csr(ops[4].matrix, u) = spmv_csr(ops[3].matrix, v)

\* The calls C15 is about: assemble_Matrix_Parabolic_ADI with tau = 0
\* (mu_x = mu_y = 0), returning operators spmv_csr can multiply by.
AdiAtZeroStep ==
    /\ pc = "assembled"
    /\ call.op = "assemble_Matrix_Parabolic_ADI"
    /\ ~call.fault
    /\ call.args.tau = R(0)
    /\ \A k \in 1 .. 4 : ColumnsInRange(call.out[k].matrix)

\* C15: with tau = 0 (mu_x = mu_y = 0), the vectors the full alternating
\* step of the four operators of assemble_Matrix_Parabolic_ADI leaves
\* unchanged are the vectors the operator of
\* assemble_Matrix_Parabolic_Explicit leaves unchanged; the two minus
\* operators have one solution for each right-hand side, being the identity.
C15_AdiFixedPoints ==
    AdiAtZeroStep =>
        /\ IsIdentityOperator(call.out[2].matrix)
        /\ IsIdentityOperator(call.out[4].matrix)
        /\ \A u \in TestVectors(grid.n_active) :
              FixedByFullStep(call.out, u)
                  <=> spmv_csr(UnsplitOperator, u) = u

\* A 3 x 3 grid whose centre is interior and whose corner 0 is a boundary
\* point: the unit vector of the centre is left unchanged by the full step
\* and by the unsplit operator, the unit vector of the corner by neither.
C15_Witness ==
    /\ AdiAtZeroStep
    /\ grid.n_active = 9
    /\ RegionOf(4) = 1
    /\ RegionOf(0) >= 2
    /\ LET e4 == [k \in 1 .. 9 |-> IF k = 5 THEN R(1) ELSE R(0)]
           e0 == [k \in 1 .. 9 |-> IF k = 1 THEN R(1) ELSE R(0)]
       IN  /\ FixedByFullStep(call.out, e4)
           /\ spmv_csr(UnsplitOperator, e4) = e4
           /\ ~FixedByFullStep(call.out, e0)
           /\ spmv_csr(UnsplitOperator, e0) # e0

(***************************************************************************)
(* The time loop of examples/Parabolic_ADI.c (main), with                  *)
(* assemble_RHS_Parabolic (src/src/pde/parabolic.c) and vec_add            *)
(* (src/src/vec.c).  pc is the position in main, mat holds ADI_matrixs and *)
(* call holds the locals of main: tau, t_now, step, solution, rhs, temp,   *)
(* exact.  call.log is a history: the library calls of the current pass    *)
(* through the loop body, each with the matrix and the time arguments it   *)
(* was given.                                                              *)
(***************************************************************************)
MaxTime == 1    \* SpecAdiLoop: T_max, the time at which the loop ends

\* A callback of main, given by how its value depends on its time argument:
\* "time" returns t, "one" returns 1 and "zero" returns 0.
CallbackAt(kind, t) ==
    IF kind = "time" THEN t ELSE IF kind = "one" THEN R(1) ELSE R(0)

\* integrated_source_term, compute_boundary_value and compute_u_exact.
LoopCallbacks ==
    {[f |-> "time", boundary |-> "time", exact |-> "one"],
     [f |-> "one", boundary |-> "time", exact |-> "zero"],
     [f |-> "zero", boundary |-> "one", exact |-> "one"]}

\* assemble_RHS_Parabolic(grid, f, compute_boundary_value, b, t, tau): the
\* b it leaves.
assemble_RHS_Parabolic(g, cb, t, tau) ==
    [k \in 1 .. g.n_active |->
        IF IsInterior(g, k - 1)
        THEN RMul(CallbackAt(cb.f, RSub(t, Half(tau))), tau)
        ELSE CallbackAt(cb.boundary, t)]

\* vec_add(a, b, n): the a it leaves.
vec_add(a, b, n) == [k \in 1 .. n |-> RAdd(a[k], b[k])]

\* tau of main: hx^2 hy^2 / (hx^2 + hy^2) / 2 * 5.
ExampleTau(g) ==
    RMul(RDiv(RDiv(RMul(RMul(RMul(g.hx, g.hx), g.hy), g.hy),
                   RAdd(RMul(g.hx, g.hx), RMul(g.hy, g.hy))),
              R(2)),
         R(5))

\* max_iter and tol of the two calls of GaussSeidel_csr in main.
LoopMaxIter == 20
LoopTol == <<1, 1000000>>

\* The grid sizes of the loop, and the region maps: every point with code 1
\* has its four neighbours inside the grid and active, as region_divider of
\* the example surrounds the interior by boundary points.
LoopDims == {d \in AsmDims : d[1] >= 2 /\ d[2] >= 2}
ClosedRegion(g) ==
    \A c \in Cells(g.nx, g.ny) :
        g.region[c] = 1 =>
            \A n \in {<<c[1] - 1, c[2]>>, <<c[1] + 1, c[2]>>,
                      <<c[1], c[2] - 1>>, <<c[1], c[2] + 1>>} :
                n \in Cells(g.nx, g.ny) /\ g.region[n] >= 1

\* main up to the loop: initialize_Grid.
LoopGrid ==
    /\ InitializeGrid(LoopDims, AsmCodes)
    /\ ClosedRegion(grid')

\* main up to the loop: tau, the four operators, t_now = 0, step = 0 and the
\* initial solution.
LoopSetup ==
    /\ pc = "grid"
    /\ \E cb \in LoopCallbacks :
          LET tau == ExampleTau(grid)
              ops == assemble_Matrix_Parabolic_ADI(grid, tau,
                         [fault |-> FALSE, value |-> -1])
          IN  /\ mat' = [k \in 1 .. 4 |-> ops[k].matrix]
              /\ call' = [op |-> "main", cb |-> cb, tau |-> tau,
                          t_now |-> R(0), step |-> 0,
                          solution |-> [k \in 1 .. grid.n_active |->
                                           CallbackAt(cb.exact, R(0))],
                          rhs |-> [k \in 1 .. grid.n_active |->
                                      UnwrittenValue],
                          temp |-> [k \in 1 .. grid.n_active |->
                                       UnwrittenValue],
                          exact |-> [k \in 1 .. grid.n_active |->
                                        UnwrittenValue],
                          log |-> << >>]
    /\ pc' = "while"
    /\ UNCHANGED <<divider, grid>>

\* The operators as main names them.
plus_delta_y == mat[1]
minus_delta_x == mat[2]
plus_delta_x == mat[3]
minus_delta_y == mat[4]

\* A mutant of FirstHalfTime: the time at the end of the step.
FirstHalfTimeStepEnd(t_now, tau) == t_now

\* The time arguments of the two calls of assemble_RHS_Parabolic.
FirstHalfTime(t_now, tau) == RSub(t_now, Half(tau))
SecondHalfTime(t_now, tau) == t_now

\* while (t_now < T_max) { t_now += tau; step++;
LoopEnter ==
    /\ pc = "while"
    /\ RLess(call.t_now, R(MaxTime))
    /\ call' = [call EXCEPT !.t_now = RAdd(@, call.tau),
                            !.step = @ + 1,
                            !.log = << >>]
    /\ pc' = "spmv_plus_delta_y"
    /\ UNCHANGED <<divider, grid, mat>>

\* The loop test fails.
LoopExit ==
    /\ pc = "while"
    /\ ~RLess(call.t_now, R(MaxTime))
    /\ pc' = "done"
    /\ UNCHANGED <<divider, grid, mat, call>>

\* spmv_csr(plus, solution, temp), at position at.
LoopSpmv(at, plus, next) ==
    /\ pc = at
    /\ call' = [call EXCEPT
                  !.temp = spmv_csr(plus, call.solution),
                  !.log = Append(@, [op |-> "spmv_csr", matrix |-> plus])]
    /\ pc' = next
    /\ UNCHANGED <<divider, grid, mat>>

\* assemble_RHS_Parabolic(grid, ..., rhs, t, tau / 2), at position at.
LoopRhs(at, t, next) ==
    /\ pc = at
    /\ call' = [call EXCEPT
                  !.rhs = assemble_RHS_Parabolic(grid, call.cb, t,
                                                 Half(call.tau)),
                  !.log = Append(@, [op |-> "assemble_RHS_Parabolic",
                                     t |-> t, tau |-> Half(call.tau)])]
    /\ pc' = next
    /\ UNCHANGED <<divider, grid, mat>>

\* vec_add(rhs, temp, grid->n_active), at position at.
LoopAdd(at, next) ==
    /\ pc = at
    /\ call' = [call EXCEPT
                  !.rhs = vec_add(call.rhs, call.temp, grid.n_active),
                  !.log = Append(@, [op |-> "vec_add"])]
    /\ pc' = next
    /\ UNCHANGED <<divider, grid, mat>>

\* GaussSeidel_csr(minus, rhs, solution, 20, 1e-6), at position at.
LoopSolve(at, minus, next) ==
    /\ pc = at
    /\ call' = [call EXCEPT
                  !.solution = GaussSeidel_csr(minus, call.rhs,
                                   call.solution, LoopMaxIter, LoopTol).x,
                  !.log = Append(@, [op |-> "GaussSeidel_csr",
                                     matrix |-> minus])]
    /\ pc' = next
    /\ UNCHANGED <<divider, grid, mat>>

\* The end of the loop body: exact[i] = compute_u_exact(xi, yj, t_now, ..).
LoopExact ==
    /\ pc = "exact"
    /\ call' = [call EXCEPT
                  !.exact = [k \in 1 .. grid.n_active |->
                                CallbackAt(call.cb.exact, call.t_now)]]
    /\ pc' = "while"
    /\ UNCHANGED <<divider, grid, mat>>

NextAdiLoop ==
    \/ LoopGrid
    \/ LoopSetup
    \/ LoopEnter
    \/ LoopSpmv("spmv_plus_delta_y", plus_delta_y, "rhs_first")
    \/ LoopRhs("rhs_first", FirstHalfTime(call.t_now, call.tau), "add_first")
    \/ LoopAdd("add_first", "solve_minus_delta_x")
    \/ LoopSolve("solve_minus_delta_x", minus_delta_x, "spmv_plus_delta_x")
    \/ LoopSpmv("spmv_plus_delta_x", plus_delta_x, "rhs_second")
    \/ LoopRhs("rhs_second", SecondHalfTime(call.t_now, call.tau),
               "add_second")
    \/ LoopAdd("add_second", "solve_minus_delta_y")
    \/ LoopSolve("solve_minus_delta_y", minus_delta_y, "exact")
    \/ LoopExact
    \/ LoopExit

SpecAdiLoop == InitGrid /\ [][NextAdiLoop]_vars

(***************************************************************************)
(* The Dirichlet system solved by Gauss-Seidel: main of                    *)
(* src/examples/Dirichlet.c with GaussSeidel_csr as the solver, from the   *)
(* initial guess 0.  Together with the solver calls and the ADI time loop  *)
(* it makes up the runs in which a system with identity rows is solved.    *)
(***************************************************************************)
SolveDirichlet ==
    /\ pc = "grid"
    /\ \E cb \in RhsCallbacks, max_iter \in 1 .. MaxIter :
          \E matrix \in {assemble_Matrix_Dirichlet(grid,
                             [fault |-> FALSE, value |-> -1]).matrix},
             rhs \in {AsSequence(assemble_RHS_Dirichlet(grid, cb))} :
             /\ mat' = matrix
             /\ call' = SolverCall("Dirichlet", rhs,
                                   [k \in 1 .. grid.n_active |-> R(0)],
                                   max_iter, LoopTol,
                                   GaussSeidel_csr(matrix, rhs,
                                       [k \in 1 .. grid.n_active |-> R(0)],
                                       max_iter, LoopTol))
                          @@ [cb |-> cb]
    /\ pc' = "solved"
    /\ UNCHANGED <<divider, grid>>

NextBoundary ==
    \/ NextSolvers
    \/ NextAdiLoop
    \/ SolveDirichlet

SpecBoundary == InitRows /\ [][NextBoundary]_vars

(***************************************************************************)
(* Claims about the ADI time loop (checked under SpecAdiLoop).             *)
(***************************************************************************)
\* The operators assemble_Matrix_Parabolic_ADI returns for the grid and the
\* tau of main, by their place in the returned array.
AdiOperatorOfMain(k) ==
    assemble_Matrix_Parabolic_ADI(grid, call.tau,
                                  [fault |-> FALSE, value |-> -1])[k].matrix

\* The library calls of one full step that ends at time t_now:
\* product with plus_delta_y, right-hand side at t_now - tau / 2, sum, solve
\* against minus_delta_x, product with plus_delta_x, right-hand side at
\* t_now, sum, solve against minus_delta_y; both right-hand sides with the
\* step length tau / 2.
FullStepCalls ==
    <<[op |-> "spmv_csr", matrix |-> AdiOperatorOfMain(1)],
      [op |-> "assemble_RHS_Parabolic",
       t |-> RSub(call.t_now, RDiv(call.tau, R(2))),
       tau |-> RDiv(call.tau, R(2))],
      [op |-> "vec_add"],
      [op |-> "GaussSeidel_csr", matrix |-> AdiOperatorOfMain(2)],
      [op |-> "spmv_csr", matrix |-> AdiOperatorOfMain(3)],
      [op |-> "assemble_RHS_Parabolic",
       t |-> call.t_now,
       tau |-> RDiv(call.tau, R(2))],
      [op |-> "vec_add"],
      [op |-> "GaussSeidel_csr", matrix |-> AdiOperatorOfMain(4)]>>

\* The positions of main inside the loop, in program order; the number of
\* library calls of the current step made before position k is k - 1.
BodyPositions ==
    <<"spmv_plus_delta_y", "rhs_first", "add_first", "solve_minus_delta_x",
      "spmv_plus_delta_x", "rhs_second", "add_second",
      "solve_minus_delta_y", "exact">>

CallsMade ==
    IF \E k \in 1 .. 9 : BodyPositions[k] = pc
    THEN (CHOOSE k \in 1 .. 9 : BodyPositions[k] = pc) - 1
    ELSE IF call.step = 0 THEN 0 ELSE 8

\* In the loop, the calls made so far in the current step are the first
\* ones of FullStepCalls, the time is step * tau, and each solve is given
\* the sum of the right-hand side of its half step and the product of the
\* plus operator of the other direction with the solution.
C20_InStep ==
    (call.op = "main") =>
        /\ call.log = SubSeq(FullStepCalls, 1, CallsMade)
        /\ call.t_now = RMul(R(call.step), call.tau)
        /\ pc = "solve_minus_delta_x" =>
              call.rhs = vec_add(
                  assemble_RHS_Parabolic(grid, call.cb,
                      RSub(call.t_now, RDiv(call.tau, R(2))),
                      RDiv(call.tau, R(2))),
                  spmv_csr(AdiOperatorOfMain(1), call.solution),
                  grid.n_active)
        /\ pc = "solve_minus_delta_y" =>
              call.rhs = vec_add(
                  assemble_RHS_Parabolic(grid, call.cb, call.t_now,
                                         RDiv(call.tau, R(2))),
                  spmv_csr(AdiOperatorOfMain(3), call.solution),
                  grid.n_active)

\* C20: in the ADI time loop every full step is the sequence product with
\* plus_delta_y, right-hand side, solve against minus_delta_x, product with
\* plus_delta_x, right-hand side, solve against minus_delta_y; a solve is
\* always preceded by the product of the other direction; both halves use
\* the step length tau / 2, with right-hand-side times t_now - tau / 2 and
\* t_now; and a new step begins only after the eight calls of the last one,
\* advancing the time by exactly tau.
C20_AdiTimeLoop ==
    /\ []C20_InStep
    /\ [][(call.op = "main" /\ call'.step # call.step) =>
             /\ call'.step = call.step + 1
             /\ call'.t_now = RAdd(call.t_now, call.tau)
             /\ call.step = 0 \/ call.log = FullStepCalls
             /\ pc' = "spmv_plus_delta_y"]_vars

\* The end of the second step on a 3 x 3 grid whose centre is interior,
\* with a source term and boundary values that change in time: tau = 1/2,
\* t_now = 1, the eight calls are made, the right-hand sides were assembled
\* for the times 3/4 and 1 with the step length 1/4.
C20_Witness ==
    /\ pc = "while"
    /\ call.op = "main"
    /\ grid.n_active = 9
    /\ RegionOf(4) = 1
    /\ call.cb.f = "time"
    /\ call.cb.boundary = "time"
    /\ call.tau = <<1, 2>>
    /\ call.step = 2
    /\ call.t_now = R(1)
    /\ Len(call.log) = 8
    /\ call.log[2].t = <<3, 4>>
    /\ call.log[2].tau = <<1, 4>>
    /\ call.log[6].t = R(1)
    /\ call.log[4].matrix # call.log[8].matrix
    /\ \E k \in 1 .. 9 : call.solution[k] \notin {R(0), NaN}

(***************************************************************************)
(* The test programs src/tests/test_csr_3x3.c and test_csr_5x5.c (main):   *)
(* Jacobi, Gauss-Seidel and CG on a fixed system, each from x = 0, one     *)
(* state per iteration of the solver that runs.  mat is the matrix of the  *)
(* test, call holds b, the three solution arrays, the solver that runs     *)
(* with its iteration count and locals, and what each solver ended with.   *)
(***************************************************************************)
TestMaxIter == 50

\* A mutant of TestTol: a tolerance of 1/10.
TestTolLoose == <<1, 10>>

TestTol == <<1, 1000000>>

Fixture3x3 ==
    [matrix |-> [rows |-> 3, cols |-> 3, nnz |-> 7,
                 row_ptr |-> <<0, 2, 5, 7>>,
                 col_ind |-> <<0, 1, 0, 1, 2, 1, 2>>,
                 values |-> <<R(4), R(-1), R(-1), R(4), R(-1), R(-1),
                              R(3)>>],
     b |-> <<R(15), R(10), R(10)>>]

Fixture5x5 ==
    [matrix |-> [rows |-> 5, cols |-> 5, nnz |-> 13,
                 row_ptr |-> <<0, 2, 5, 8, 11, 13>>,
                 col_ind |-> <<0, 1, 0, 1, 2, 1, 2, 3, 2, 3, 4, 3, 4>>,
                 values |-> <<R(2), R(-1), R(-1), R(2), R(-1), R(-1), R(2),
                              R(-1), R(-1), R(2), R(-1), R(-1), R(2)>>],
     b |-> <<R(1), R(2), R(3), R(4), R(5)>>]

Zeros(n) == [k \in 1 .. n |-> R(0)]

\* main up to the first solver call, for one of the two tests.
InitFixture ==
    /\ pc = "Jacobi_csr"
    /\ divider = [nx |-> 0, ny |-> 0, code |-> << >>]
    /\ grid = NoGrid
    /\ \E fx \in {Fixture3x3, Fixture5x5} :
          /\ mat = fx.matrix
          /\ call = [op |-> "test", b |-> fx.b,
                     x_Jacobi |-> Zeros(fx.matrix.rows),
                     x_GS |-> Zeros(fx.matrix.rows),
                     x_CG |-> Zeros(fx.matrix.rows),
                     iter |-> 0, stopped |-> FALSE, entered |-> FALSE,
                     locals |-> << >>, ended |-> << >>]

\* The solver at pc has run its loop to the end: the loop test failed or
\* the stop test fired.
LoopOver == call.stopped \/ call.iter >= TestMaxIter

\* One iteration of the loop of Jacobi_csr on x_Jacobi; locals is x_new.
JacobiIteration ==
    /\ pc = "Jacobi_csr"
    /\ ~LoopOver
    /\ \E st \in {JacobiSweep(mat, call.b, call.x_Jacobi,
                              IF call.entered THEN call.locals
                              ELSE [k \in 1 .. mat.rows |-> UnwrittenValue],
                              RowOrder(mat.rows))} :
          call' = [call EXCEPT !.x_Jacobi = st.x,
                               !.locals = st.x_new,
                               !.entered = TRUE,
                               !.iter = @ + 1,
                               !.stopped = SqrtLess(st.norm, TestTol)]
    /\ UNCHANGED <<pc, divider, grid, mat>>

\* One iteration of the loop of GaussSeidel_csr on x_GS.
GaussSeidelIteration ==
    /\ pc = "GaussSeidel_csr"
    /\ ~LoopOver
    /\ \E st \in {GaussSeidelSweep(mat, call.b, call.x_GS,
                                   RowOrder(mat.rows))} :
          call' = [call EXCEPT !.x_GS = st.x,
                               !.entered = TRUE,
                               !.iter = @ + 1,
                               !.stopped = SqrtLess(st.norm, TestTol)]
    /\ UNCHANGED <<pc, divider, grid, mat>>

\* CG_csr up to its loop: r = b - A*x, p = r, rsold = r.r.
CGEnter ==
    /\ pc = "CG_csr"
    /\ ~call.entered
    /\ \E start \in {CG_csr(mat, call.b, call.x_CG, 0, TestTol)} :
          call' = [call EXCEPT
                     !.entered = TRUE,
                     !.locals = [r |-> start.r0, p |-> start.p0,
                                 rsold |-> vec_dot(start.r0, start.r0,
                                                   mat.rows)]]
    /\ UNCHANGED <<pc, divider, grid, mat>>

\* One iteration of the loop of CG_csr on x_CG; locals is [r, p, rsold].
CGIteration ==
    /\ pc = "CG_csr"
    /\ call.entered
    /\ ~LoopOver
    /\ \E step \in {CGLoop(mat,
                           [x |-> call.x_CG, r |-> call.locals.r,
                            p |-> call.locals.p,
                            rsold |-> call.locals.rsold],
                           call.iter, call.iter + 1, TestTol,
                           << >>).trace[1]} :
          call' = [call EXCEPT
                     !.x_CG = step.x,
                     !.locals = [r |-> step.r, p |-> step.p,
                                 rsold |-> IF step.stop
                                           THEN call.locals.rsold
                                           ELSE step.rsnew],
                     !.iter = @ + 1,
                     !.stopped = step.stop]
    /\ UNCHANGED <<pc, divider, grid, mat>>

\* The solver at pc returns and main goes on to next; ended records the
\* iterations the solver ran and whether its stop test fired.
SolverReturn(at, next) ==
    /\ pc = at
    /\ call.entered \/ at # "CG_csr"
    /\ LoopOver
    /\ call' = [call EXCEPT
                  !.ended = Append(@, [solver |-> at, iters |-> call.iter,
                                       stopped |-> call.stopped]),
                  !.iter = 0, !.stopped = FALSE, !.entered = FALSE,
                  !.locals = << >>]
    /\ pc' = next
    /\ UNCHANGED <<divider, grid, mat>>

NextFixture ==
    \/ JacobiIteration
    \/ SolverReturn("Jacobi_csr", "GaussSeidel_csr")
    \/ GaussSeidelIteration
    \/ SolverReturn("GaussSeidel_csr", "CG_csr")
    \/ CGEnter
    \/ CGIteration
    \/ SolverReturn("CG_csr", "done")

SpecFixture == InitFixture /\ [][NextFixture]_vars

(***************************************************************************)
(* Claims about the test programs (checked under SpecFixture).             *)
(***************************************************************************)
\* The exact solution of the system of the test.
ExactSolution ==
    IF mat.rows = 3 THEN <<R(5), R(5), R(5)>>
    ELSE <<<<35, 6>>, <<32, 3>>, <<27, 2>>, <<40, 3>>, <<55, 6>>>>

\* Every entry of x is closer than 1e-6 to the exact solution.
WithinError(x) ==
    \A k \in 1 .. mat.rows :
        RLess(RAbs(RSub(x[k], ExactSolution[k])), <<1, 1000000>>)

\* Solver k of main (1: Jacobi, 2: Gauss-Seidel, 3: CG) met its stopping
\* criterion within the budget and returned x within 1e-6 of the exact
\* solution.
Converged(k, x) ==
    /\ call.ended[k].stopped
    /\ call.ended[k].iters <= TestMaxIter
    /\ WithinError(x)

\* Solver k used up the budget without meeting its stopping criterion and
\* returned x with an entry further than 1e-6 from the exact solution.
BudgetExhausted(k, x) ==
    /\ ~call.ended[k].stopped
    /\ call.ended[k].iters = TestMaxIter
    /\ ~WithinError(x)

BoundaryTerm == call.args.cb.boundary

\* C21 as stated: assemble_RHS_Dirichlet sets, for every active index k,
\* b[k] = f(x, y) scaled by the cell area hx * hy when the point is interior
\* (code 1) and b[k] = compute_boundary_value(x, y, code) unscaled when it
\* is a boundary point, on every grid, those with hx # hy included.
C21_SourceScaledByCellArea ==
    (pc = "assembled" /\ call.op = "assemble_RHS_Dirichlet") =>
        /\ Len(call.b) = grid.n_active
        /\ \A i \in 0 .. grid.n_active - 1 :
              call.b[i + 1] =
                  IF RegionOf(i) = 1
                  THEN RMul(RMul(call.args.cb.f, grid.hx), grid.hy)
                  ELSE BoundaryTerm

\* C21, amended: assemble_RHS_Dirichlet sets, for every active index k,
\* b[k] = f(x, y) * hx * hx when the point is interior (code 1) and
\* b[k] = compute_boundary_value(x, y, code) unscaled when it is a boundary
\* point; the scale is the cell area exactly on the grids with hx = hy.
C21_SourceScaledByHxSquared ==
    (pc = "assembled" /\ call.op = "assemble_RHS_Dirichlet") =>
        /\ Len(call.b) = grid.n_active
        /\ \A i \in 0 .. grid.n_active - 1 :
              call.b[i + 1] =
                  IF RegionOf(i) = 1 THEN SourceTerm ELSE BoundaryTerm
        /\ (grid.hx = grid.hy) =>
              SourceTerm = RMul(RMul(call.args.cb.f, grid.hx), grid.hy)

\* A right-hand side on a grid with hx # hy that has an interior and a
\* boundary point: the interior entry is f * hx * hx, which is not
\* f * hx * hy.
C21_Witness ==
    /\ pc = "assembled"
    /\ call.op = "assemble_RHS_Dirichlet"
    /\ IsFinite(grid.hx) /\ IsFinite(grid.hy) /\ grid.hx # grid.hy
    /\ \E i, k \in 0 .. grid.n_active - 1 :
          /\ RegionOf(i) = 1 /\ RegionOf(k) >= 2
          /\ call.b[i + 1] = SourceTerm
          /\ call.b[i + 1] # RMul(RMul(call.args.cb.f, grid.hx), grid.hy)
          /\ call.b[k + 1] = BoundaryTerm

(***************************************************************************)
(* Claims about the layout of D, L and U (checked under SpecCsr).          *)
(***************************************************************************)
\* The stored triples of m in storage order, row by row.
TriplesInOrder(m) ==
    [k \in 1 .. At(m.row_ptr, m.rows) |-> TripleAt(m, k - 1)]

BelowDiagonal(t) == t[2] < t[1]
AboveDiagonal(t) == t[2] > t[1]

\* row_ptr starts at 0, does not decrease and ends at nnz, and the arrays
\* col_ind and values hold nnz entries each.
RowPtrWellFormed(m) ==
    /\ Len(m.row_ptr) = m.rows + 1
    /\ At(m.row_ptr, 0) = 0
    /\ At(m.row_ptr, m.rows) = m.nnz
    /\ \A i \in 0 .. m.rows - 1 : At(m.row_ptr, i) <= At(m.row_ptr, i + 1)
    /\ Len(m.col_ind) = m.nnz
    /\ Len(m.values) = m.nnz

\* C22: get_D_L_U_csr returns D with exactly rows stored entries,
\* row_ptr[i] = i and col_ind[i] = i; L holds exactly the entries of A with
\* col < row and U those with col > row, each in A's row order, in arrays
\* sized to the counts of the first pass, with well-formed row_ptr; a row of
\* A without a stored diagonal entry gets the value 0 in D.
C22_SplitLayout ==
    (pc = "called" /\ call.op = "get_D_L_U_csr") =>
        LET D == call.result[1]
            L == call.result[2]
            U == call.result[3]
        IN  /\ D.rows = mat.rows /\ L.rows = mat.rows /\ U.rows = mat.rows
            /\ D.nnz = mat.rows
            /\ RowPtrWellFormed(D)
            /\ \A i \in 0 .. mat.rows : At(D.row_ptr, i) = i
            /\ \A i \in 0 .. mat.rows - 1 :
                  /\ At(D.col_ind, i) = i
                  /\ DiagonalEntries(mat, i) = 0 => At(D.values, i) = R(0)
                  /\ DiagonalEntries(mat, i) = 1 =>
                        \E k \in At(mat.row_ptr, i)
                                  .. At(mat.row_ptr, i + 1) - 1 :
                            /\ At(mat.col_ind, k) = i
                            /\ At(D.values, i) = At(mat.values, k)
            /\ RowPtrWellFormed(L)
            /\ RowPtrWellFormed(U)
            /\ TriplesInOrder(L) = SelectSeq(TriplesInOrder(mat), BelowDiagonal)
            /\ TriplesInOrder(U) = SelectSeq(TriplesInOrder(mat), AboveDiagonal)

\* A split of a matrix of two rows: row 0 stores no diagonal entry and one
\* entry above the diagonal, row 1 stores two entries below the diagonal
\* and its diagonal entry.
C22_Witness ==
    /\ pc = "called"
    /\ call.op = "get_D_L_U_csr"
    /\ mat.rows = 2
    /\ DiagonalEntries(mat, 0) = 0
    /\ DiagonalEntries(mat, 1) = 1
    /\ At(call.result[1].values, 0) = R(0)
    /\ At(call.result[1].values, 1) # R(0)
    /\ call.result[2].nnz = 2
    /\ call.result[3].nnz = 1
    /\ At(call.result[2].values, 0) # At(call.result[2].values, 1)

(***************************************************************************)
(* Claims about rows without a diagonal (checked under SpecSolvers).       *)
(***************************************************************************)
\* Row i of m stores no entry with col_ind = i, or stores 0 in each.
ZeroDiagonal(m, i) ==
    \A k \in At(m.row_ptr, i) .. At(m.row_ptr, i + 1) - 1 :
        At(m.col_ind, k) = i => At(m.values, k) = R(0)

\* C23: when some row i of the matrix has no entry with col_ind = i, or its
\* stored diagonal value is 0, Jacobi_csr and GaussSeidel_csr divide by 0
\* when they compute x[i]: x[i] is infinite or NaN after every sweep.  No
\* error is signalled and the call returns after at most max_iter sweeps
\* (no stop test fires, so after exactly max_iter of them).
C23_ZeroDiagonalDivides ==
    (/\ pc = "called"
     /\ call.op \in {"Jacobi_csr", "GaussSeidel_csr"}
     /\ \E i \in 0 .. mat.rows - 1 : ZeroDiagonal(mat, i)) =>
        /\ Len(call.out.x) = mat.rows
        /\ call.out.iters = (IF call.max_iter > 0 THEN call.max_iter ELSE 0)
        /\ Len(call.out.trace) = call.out.iters + 1
        /\ \A k \in 2 .. Len(call.out.trace) :
              \A i \in 0 .. mat.rows - 1 :
                  ZeroDiagonal(mat, i) => ~IsFinite(At(call.out.trace[k], i))
        /\ call.out.x = call.out.trace[Len(call.out.trace)]

\* GaussSeidel_csr on the matrix with the zeroed row, two sweeps allowed:
\* both are run, and x[0] is not finite after each.
C23_Witness ==
    /\ pc = "called"
    /\ call.op = "GaussSeidel_csr"
    /\ mat = ZeroedRowCSR
    /\ DiagonalEntries(mat, 0) = 1
    /\ call.max_iter = 2
    /\ call.out.iters = 2
    /\ ~IsFinite(At(call.out.x, 0))
    /\ IsFinite(At(call.x_in, 0))

(***************************************************************************)
(* Claims about inactive neighbours (checked under SpecAsm).               *)
(***************************************************************************)
\* The axis neighbours of the active index i that lie in the grid and have
\* region code 0, each as <<slot, gi, gj>>: slot is the position of the
\* neighbour in a 5-point row (2 and 3 for gi - 1 and gi + 1, 4 and 5 for
\* gj - 1 and gj + 1).
InactiveNeighbours(i) ==
    {n \in {<<2, At(grid.id_i, i) - 1, At(grid.id_j, i)>>,
            <<3, At(grid.id_i, i) + 1, At(grid.id_j, i)>>,
            <<4, At(grid.id_i, i), At(grid.id_j, i) - 1>>,
            <<5, At(grid.id_i, i), At(grid.id_j, i) + 1>>} :
        /\ <<n[2], n[3]>> \in Cells(grid.nx, grid.ny)
        /\ grid.region[<<n[2], n[3]>>] = 0}

MatrixAssemblers ==
    {"assemble_Matrix_Dirichlet", "assemble_Matrix_Neumann",
     "assemble_Matrix_Parabolic_Explicit", "assemble_Matrix_Parabolic_ADI"}

\* Row i of the returned matrices has its full number of entries, and the
\* entry of every inactive in-grid neighbour has the column index -1.
FullRowWithInvalidColumns(i) ==
    IF call.op = "assemble_Matrix_Parabolic_ADI"
    THEN /\ \A k \in 1 .. 4 : Len(RowEntries(call.out[k].matrix, i)) = 3
         /\ \A n \in InactiveNeighbours(i) :
               IF n[1] <= 3
               THEN \A k \in {2, 3} :
                       RowEntries(call.out[k].matrix, i)[n[1]][1] = -1
               ELSE \A k \in {1, 4} :
                       RowEntries(call.out[k].matrix, i)[n[1] - 2][1] = -1
    ELSE /\ Len(RowEntries(call.out[1].matrix, i)) = 5
         /\ \A n \in InactiveNeighbours(i) :
               RowEntries(call.out[1].matrix, i)[n[1]][1] = -1

\* C24 as stated: when a point classified interior (code 1) has an in-grid
\* axis neighbour that is inactive (code 0), every assembler stores the
\* column index -1 for that neighbour, reports no error and still emits the
\* full 5 (3 for an ADI operator) entries of the row.
C24_InactiveNeighbourStored ==
    (pc = "assembled" /\ call.op \in MatrixAssemblers /\ ~call.fault) =>
        \A i \in InteriorIndices :
            InactiveNeighbours(i) # {} => FullRowWithInvalidColumns(i)

\* C24, amended: the same for every code-1 row that gets the stencil, that
\* is, for every assembler and every code-1 row but the first code-1 row of
\* assemble_Matrix_Neumann, which is a row of one entry, the diagonal with
\* value 1, whatever its neighbours are.
C24_InactiveNeighbourStoredInStencilRows ==
    (pc = "assembled" /\ call.op \in MatrixAssemblers /\ ~call.fault) =>
        \A i \in InteriorIndices :
            IF call.op = "assemble_Matrix_Neumann" /\ IsFirstInterior(i)
            THEN RowEntries(call.out[1].matrix, i) = <<<<i, R(1)>>>>
            ELSE InactiveNeighbours(i) # {} => FullRowWithInvalidColumns(i)

\* A Neumann matrix of a grid with two interior points that have an inactive
\* neighbour each: the row of the first is the single diagonal entry, the
\* row of the other has five entries, -1 among its columns.
C24_Witness ==
    /\ pc = "assembled"
    /\ call.op = "assemble_Matrix_Neumann"
    /\ ~call.fault
    /\ \E i, k \in InteriorIndices :
          /\ IsFirstInterior(i)
          /\ i # k
          /\ InactiveNeighbours(i) # {}
          /\ InactiveNeighbours(k) # {}
          /\ Len(RowEntries(call.out[1].matrix, i)) = 1
          /\ FullRowWithInvalidColumns(k)
          /\ \E n \in 2 .. 5 : RowEntries(call.out[1].matrix, k)[n][1] = -1

(***************************************************************************)
(* Claims about the spacing of degenerate grids (checked under SpecGrid).  *)
(***************************************************************************)
\* C25 as stated: the spacing of the constructed grid is Inf or NaN, from a
\* division by zero, for every nx < 2 or ny < 2 and for no nx >= 2 and
\* ny >= 2.
C25_SpacingFailsBelowTwo ==
    pc = "grid" =>
        ((divider.nx < 2 \/ divider.ny < 2)
            <=> (~IsFinite(grid.hx) \/ ~IsFinite(grid.hy)))

\* C25, amended: the division is by zero exactly for nx = 1 (hx) and for
\* ny = 1 (hy); the spacing is then +Inf and the one coordinate of that axis
\* is NaN.  For nx = 0 the divisor is -1 and hx is the negated extent, a
\* finite number; for nx >= 2 the spacing is finite and positive.  No guard:
\* the grid is constructed in every case.
C25_SpacingFailsAtOne ==
    pc = "grid" =>
        /\ grid.nx = divider.nx /\ grid.ny = divider.ny
        /\ ~IsFinite(grid.hx) <=> divider.nx = 1
        /\ ~IsFinite(grid.hy) <=> divider.ny = 1
        /\ divider.nx = 1 => grid.hx = <<1, 0>> /\ grid.x = <<NaN>>
        /\ divider.ny = 1 => grid.hy = <<1, 0>> /\ grid.y = <<NaN>>
        /\ divider.nx = 0 => grid.hx = RSub(Domain.x0, Domain.x1)
        /\ divider.ny = 0 => grid.hy = RSub(Domain.y0, Domain.y1)
        /\ divider.nx >= 2 => RLess(R(0), grid.hx)
        /\ divider.ny >= 2 => RLess(R(0), grid.hy)

\* A grid of one column and two rows: hx is +Inf, hy is finite.
C25_Witness ==
    /\ pc = "grid"
    /\ divider.nx = 1
    /\ divider.ny = 2
    /\ grid.hx = <<1, 0>>
    /\ IsFinite(grid.hy)
    /\ grid.x = <<NaN>>

(***************************************************************************)
(* Claims about the order of the rows (checked under SpecRows).            *)
(***************************************************************************)
\* What the call of the assembler returns when its loops run as written.
SequentialMatrices ==
    IF call.op = "assemble_Matrix_Dirichlet"
    THEN <<assemble_Matrix_Dirichlet(grid, call.args.oob)>>
    ELSE IF call.op = "assemble_Matrix_Neumann"
    THEN <<assemble_Matrix_Neumann(grid, call.args.get_normal,
                                   call.args.oob)>>
    ELSE IF call.op = "assemble_Matrix_Parabolic_Explicit"
    THEN <<assemble_Matrix_Parabolic_Explicit(grid, call.args.tau,
                                              call.args.oob)>>
    ELSE assemble_Matrix_Parabolic_ADI(grid, call.args.tau, call.args.oob)

\* Row i of spmv_csr has run to its end.
SpmvRowDone(i) == At(call.j, i) = At(mat.row_ptr, i + 1)

\* Every row of spmv_csr that has run to its end, whatever the other rows
\* have done so far, holds the y[i] of the sequential loop, and a row not
\* yet started has written nothing.
SpmvRowsIndependent ==
    pc = "spmv rows" =>
        \A i \in 0 .. mat.rows - 1 :
            /\ SpmvRowDone(i) => At(call.y, i) = At(spmv_csr(mat, call.x), i)
            /\ At(call.j, i) < 0 => At(call.y, i) = UnwrittenValue

RowsAscending == \A k \in 1 .. Len(call.order) : call.order[k] = k - 1

Returns ==
    /\ pc = "returned"
    /\ \A k \in 1 .. Len(call.out) : ~call.out[k].fault

\* C26 as stated: the row loops of spmv_csr and of every assembler are
\* row-parallel: run in any order, or interleaved, the rows give the result
\* of the sequential loop.
C26_RowsInAnyOrder ==
    /\ SpmvRowsIndependent
    /\ Returns => call.out = SequentialMatrices

\* C26, amended: the rows of spmv_csr are independent.  The rows of the
\* assemblers are not: a row is stored at the running index that the rows
\* run before it have left, and row_ptr[i + 1] is the running index after
\* it, so a call that returns gives the matrices of the sequential loop
\* exactly when the rows were run in the order 0, 1, ..., n_active - 1.
C26_OnlySpmvRowsInAnyOrder ==
    /\ SpmvRowsIndependent
    /\ Returns => (call.out = SequentialMatrices <=> RowsAscending)

\* assemble_Matrix_Neumann has run two interior rows, the later one first:
\* the matrix returned differs from the one of the sequential loop.
C26_Witness ==
    /\ Returns
    /\ call.op = "assemble_Matrix_Neumann"
    /\ \E a, b \in 1 .. Len(call.order) :
          /\ a < b
          /\ call.order[a] > call.order[b]
          /\ IsInterior(grid, call.order[a])
          /\ IsInterior(grid, call.order[b])
    /\ call.out # SequentialMatrices

(***************************************************************************)
(* Claim about the positions of id_map the assemblers read (SpecAsm).      *)
(***************************************************************************)
\* The positions a boundary row of assemble_Matrix_Neumann reads id_map at:
\* the neighbour against the normal, in y when the sine and in x when the
\* cosine of the angle is above the tolerance.
SelectedNeighbours(i, normal) ==
    {c \in {<<At(grid.id_i, i), At(grid.id_j, i) - 1>>,
            <<At(grid.id_i, i), At(grid.id_j, i) + 1>>} :
        /\ AboveTolerance(normal.sin)
        /\ RLess(R(0), normal.sin) <=> c[2] < At(grid.id_j, i)}
    \cup
    {c \in {<<At(grid.id_i, i) - 1, At(grid.id_j, i)>>,
            <<At(grid.id_i, i) + 1, At(grid.id_j, i)>>} :
        /\ AboveTolerance(normal.cos)
        /\ RLess(R(0), normal.cos) <=> c[1] < At(grid.id_i, i)}

\* C27: for every grid produced by initialize_Grid from any region_divider
\* the assemblers read id_map only at positions inside the grid: no point
\* with region code 1 lies in the first or last grid row or column, and no
\* Neumann boundary point's selected neighbour lies outside the grid.
C27_ReadsInsideGrid ==
    (pc = "assembled" /\ call.op \in MatrixAssemblers) =>
        /\ ~call.fault
        /\ \A i \in InteriorIndices :
              /\ At(grid.id_i, i) \in 1 .. grid.nx - 2
              /\ At(grid.id_j, i) \in 1 .. grid.ny - 2
        /\ call.op = "assemble_Matrix_Neumann" =>
              \A i \in 0 .. grid.n_active - 1 :
                  RegionOf(i) >= 2 =>
                      SelectedNeighbours(i, call.args.get_normal[RegionOf(i)])
                          \subseteq Cells(grid.nx, grid.ny)

(***************************************************************************)
(* Claim about CG_csr started at the solution (SpecSolvers).               *)
(***************************************************************************)
\* C28: CG_csr never divides by a zero p.Ap (every alpha it computes is a
\* finite number); in particular, when the initial guess satisfies
\* A*x = b exactly (r = b - A*x is zero) and max_iter >= 1, CG_csr returns
\* with x unchanged.
C28_CGKeepsExactSolution ==
    (pc = "called" /\ call.op = "CG_csr") =>
        /\ \A k \in 1 .. Len(call.out.trace) :
              IsFinite(call.out.trace[k].alpha)
        /\ ((\A k \in 1 .. mat.rows : call.out.r0[k] = R(0))
              /\ call.max_iter >= 1)
               => call.out.x = call.x_in

(***************************************************************************)
(* Claim about the symmetry of the Dirichlet matrix (SpecAsm).             *)
(***************************************************************************)
\* The four axis neighbours of the active index i are in the grid and
\* active.
FourActiveNeighbours(i) ==
    \A c \in {<<At(grid.id_i, i) - 1, At(grid.id_j, i)>>,
              <<At(grid.id_i, i) + 1, At(grid.id_j, i)>>,
              <<At(grid.id_i, i), At(grid.id_j, i) - 1>>,
              <<At(grid.id_i, i), At(grid.id_j, i) + 1>>} :
        c \in Cells(grid.nx, grid.ny) /\ grid.region[c] > 0

\* C29: the matrix produced by assemble_Matrix_Dirichlet is symmetric,
\* A[i,j] = A[j,i] for all active i and j, on every grid on which each
\* interior point has four active neighbours.
C29_DirichletSymmetric ==
    (/\ pc = "assembled"
     /\ call.op = "assemble_Matrix_Dirichlet"
     /\ ~call.fault
     /\ \A i \in InteriorIndices : FourActiveNeighbours(i)) =>
        \A i, j \in 0 .. grid.n_active - 1 :
            DenseEntry(call.out[1].matrix, i, j,
                       At(call.out[1].matrix.row_ptr, i))
                = DenseEntry(call.out[1].matrix, j, i,
                             At(call.out[1].matrix.row_ptr, j))

(***************************************************************************)
(* Claim about identity rows under the sweep solvers (SpecBoundary).       *)
(***************************************************************************)
\* Row i of m is an identity row: a single entry, column i, value 1.
IdentityRow(m, i) == RowEntries(m, i) = <<<<i, R(1)>>>>

BoundaryIndices == {i \in 0 .. grid.n_active - 1 : RegionOf(i) >= 2}

\* C30: whenever GaussSeidel_csr or Jacobi_csr runs at least one sweep on a
\* matrix whose row i is an identity row, x[i] = b[i] on return, converged
\* or not; hence after each implicit half-step of the ADI loop, and after a
\* Gauss-Seidel solve of the Dirichlet system, the solution at every
\* boundary point is the boundary value exactly: the value at
\* t_now - tau / 2 after the solve against minus_delta_x, the value at
\* t_now after the solve against minus_delta_y.
C30_IdentityRowsTakeRhs ==
    /\ (pc = "called" /\ call.op \in {"Jacobi_csr", "GaussSeidel_csr"}
           /\ call.out.iters >= 1) =>
          \A i \in 0 .. mat.rows - 1 :
              IdentityRow(mat, i) => At(call.out.x, i) = At(call.b, i)
    /\ (call.op = "main" /\ pc = "spmv_plus_delta_x") =>
          \A i \in BoundaryIndices :
              /\ IdentityRow(minus_delta_x, i)
              /\ At(call.solution, i)
                    = CallbackAt(call.cb.boundary,
                                 RSub(call.t_now, RDiv(call.tau, R(2))))
    /\ (call.op = "main" /\ pc = "exact") =>
          \A i \in BoundaryIndices :
              /\ IdentityRow(minus_delta_y, i)
              /\ At(call.solution, i)
                    = CallbackAt(call.cb.boundary, call.t_now)
    /\ pc = "solved" =>
          /\ call.out.iters >= 1
          /\ \A i \in BoundaryIndices :
                /\ IdentityRow(mat, i)
                /\ At(call.out.x, i) = call.cb.boundary

\* The Dirichlet system of a 3 x 3 grid whose centre is interior, after a
\* Gauss-Seidel solve that used up its budget of one sweep without meeting
\* the stop test: the eight boundary entries hold the boundary value, which
\* differs from the initial guess.
C30_Witness ==
    /\ pc = "solved"
    /\ grid.n_active = 9
    /\ RegionOf(4) = 1
    /\ call.max_iter = 1
    /\ call.out.iters = 1
    /\ GaussSeidel_csr(mat, call.b, call.out.x, 1, call.tol).x # call.out.x
    /\ \A i \in BoundaryIndices :
          At(call.out.x, i) = call.cb.boundary
              /\ At(call.x_in, i) # call.cb.boundary

====
